---- MODULE Spec2Model ----
(***************************************************************************)
(* PayPerie: x402 payment settlement and vesting.                          *)
(*                                                                         *)
(*  - the on-chain vault (contracts/PayPerieVault.sol): settlePayment,     *)
(*    claimRevenue and the admin setters, over an ERC-20 ledger;           *)
(*  - the facilitator's PaymentExecutor.executePayment (services/          *)
(*    executor.ts), one process per run, one step per awaited call;        *)
(*  - the facilitator's /api/pay handler, the policy validator and the     *)
(*    in-memory user policy store (store/userPolicy.ts).                   *)
(*                                                                         *)
(* Three specifications share the variables: SpecVault drives the vault    *)
(* by direct contract calls, SpecExec drives executePayment runs, SpecPay  *)
(* drives /api/pay requests through the policy validator.                  *)
(***************************************************************************)
EXTENDS Integers, Sequences, FiniteSets, TLC

(***************************************************************************)
(* Accounts                                                                *)
(***************************************************************************)
ZeroAddr == "0x0"
Admin == "admin"
Fac == "facilitator"
Author == "author"
Author2 == "author2"
Treasury == "treasury"
VaultAddr == "vault"
Payer == "payer"
Merchant == "merchant"

Accounts == {ZeroAddr, Admin, Fac, Author, Author2, Treasury, VaultAddr, Payer, Merchant}

\* externally owned accounts that send transactions to the vault
Callers == {Admin, Fac, Author}

(***************************************************************************)
(* Bounds                                                                  *)
(***************************************************************************)
InitialMint == 1000
MaxVaultTicks == 1
PayerFunds == 100
FacFloat == 50
MaxTicks == 1
NumRuns == 2
NumPays == 1

\* the number of executePayment runs in SpecExecFair
NumFair == 1

\* the number of /api/pay requests in flight at once in SpecRace
NumRacers == 2

\* the number of /api/pay requests sent one after another in SpecSerial
NumSerial == 2
NumVisits == 2
StartSeconds == 5

RunIds == 1..NumRuns
PayIds == 1..NumPays

(***************************************************************************)
(* Program constants of the vault                                          *)
(***************************************************************************)
BPS_DENOMINATOR == 10000
ONE_DAY == 86400
Level0 == 0
Level1 == 1
Certified == 2
DeployTime == 100

\* stand-in for the allowance 2^256 - 1 the executor approves
UnlimitedAllowance == 1000000

\* values and times of the authorizations the model enumerates
SmallValue == 40
LargeValue == 60
FarFuture == 900000

\* inputs of the facilitator: the same addresses in another letter case, a
\* merchant that is not the facilitator, a key that is not the payer's
FacUpper == "FACILITATOR"
PayerUpper == "PAYER"
Mallory == "mallory"
NoAuthor == "none"
ShopUpper == "Shop.Example"

VARIABLES
  authors,          \* mapping(address => AuthorProfile)
  treasuryWallet,
  protocolFeeBps,
  facilitatorRole,  \* accounts holding FACILITATOR_ROLE
  tokenBal,         \* ERC-20 balanceOf
  allowance,        \* ERC-20 allowance(owner, vault)
  blockTime,        \* block.timestamp, seconds
  nSettles,         \* successful settlements so far
  vTicks,           \* time advances so far (bounded)
  lastCall,         \* the contract call made by the last step and its outcome
  authState,        \* token ledger: authorizationState, the consumed (authorizer, nonce) pairs
  nowMs,            \* Date.now() of the facilitator, milliseconds
  fTicks,           \* clock advances so far (bounded)
  runs,             \* the executePayment runs: position, request, result, calls made
  userPolicies,     \* userPolicies: Map from lower-cased address to UserPolicy
  lastQuery         \* the response of GET /api/policy served by the last step

vaultVars == <<authors, treasuryWallet, protocolFeeBps, facilitatorRole, tokenBal,
               allowance, blockTime, nSettles, vTicks, lastCall>>

facVars == <<authState, nowMs, fTicks, runs>>

polVars == <<userPolicies, lastQuery>>

vars == <<vaultVars, facVars, polVars>>

\* no policy query was served by the step
NoQuery == [status |-> 0]

\* the step does not touch the policy store and serves no policy query
policyUntouched ==
  /\ UNCHANGED userPolicies
  /\ lastQuery' = NoQuery

(***************************************************************************)
(* PayPerieVault.sol                                                       *)
(***************************************************************************)
DefaultProfile == [tier |-> Level0, availableBalance |-> 0, lockedBalance |-> 0, unlockTime |-> 0]

adminRole == {Admin}

NoCall == [op |-> "none", caller |-> ZeroAddr, author |-> ZeroAddr, amount |-> 0,
           ok |-> TRUE, err |-> "", fee |-> 0, netIncome |-> 0, toRelease |-> 0,
           toLock |-> 0, payout |-> 0, events |-> <<>>, pre |-> DefaultProfile,
           nested |-> [op |-> "none", ok |-> TRUE, err |-> ""],
           atTransfer |-> DefaultProfile]

Call(op, caller) == [NoCall EXCEPT !.op = op, !.caller = caller]

\* a reverted call: the caller and the revert reason are all it leaves behind
Reverted(op, caller, err) ==
  [NoCall EXCEPT !.op = op, !.caller = caller, !.ok = FALSE, !.err = err]

\* variant: the role check lets every account through
onlyRoleOpen(role, account) == TRUE

\* onlyRole(role): the set holds the accounts that have the role
onlyRole(role, account) == account \in role

\* variant: the Level1 branch is missing, Level1 falls through to the Certified values
tierConfigNoLevel1(tier) ==
  IF tier = Level0 THEN [immediateBps |-> 1000, lockPeriod |-> 15 * ONE_DAY]
  ELSE [immediateBps |-> 9000, lockPeriod |-> 1 * ONE_DAY]

\* _tierConfig
tierConfig(tier) ==
  IF tier = Level0 THEN [immediateBps |-> 1000, lockPeriod |-> 15 * ONE_DAY]
  ELSE IF tier = Level1 THEN [immediateBps |-> 5000, lockPeriod |-> 7 * ONE_DAY]
  ELSE [immediateBps |-> 9000, lockPeriod |-> 1 * ONE_DAY]

\* variant: the fee is rounded up instead of truncated
feeRoundedUp(amount, feeBps) == (amount * feeBps + BPS_DENOMINATOR - 1) \div BPS_DENOMINATOR

\* uint256 fee = (amount * protocolFeeBps) / BPS_DENOMINATOR
feeOf(amount, feeBps) == (amount * feeBps) \div BPS_DENOMINATOR

\* uint256 toRelease = (netIncome * immediateBps) / BPS_DENOMINATOR
toReleaseOf(netIncome, immediateBps) == (netIncome * immediateBps) \div BPS_DENOMINATOR

\* ERC-20 transfer of amt from a to b
Transfer(bal, a, b, amt) == [[bal EXCEPT ![a] = @ - amt] EXCEPT ![b] = @ + amt]

\* the vault's storage and the token ledger that a call reads and writes
Ledger == [authors |-> authors, tokenBal |-> tokenBal, allowance |-> allowance]

\* variant: the result of the pull is not looked at
canPullUnchecked(s, from, amount) == TRUE

\* safeTransferFrom(from, vault, amount) succeeds iff balance and allowance cover it
canPull(s, from, amount) == s.tokenBal[from] >= amount /\ s.allowance[from] >= amount

\* variant: the guard lets a nested call in
nonReentrantOpen(entered) == TRUE

\* ReentrancyGuard.nonReentrant: a call is let in iff no guarded call is in progress
nonReentrant(entered) == ~entered

\* variant: the payout is transferred before availableBalance is zeroed
atTransferNotZeroed(released, zeroed) == released

\* claimRevenue lines 113-114: the caller's profile in storage when safeTransfer runs
atTransfer(released, zeroed) == zeroed

\* variant: an earlier unlock time that is later than the new one is kept
newUnlockTimeKeepLater(profile, time, lockPeriod) ==
  IF profile.unlockTime > time + lockPeriod THEN profile.unlockTime ELSE time + lockPeriod

\* the unlock time settlePayment stores when toLock > 0
newUnlockTime(profile, time, lockPeriod) == time + lockPeriod

\* variant: vesting needs the time to be strictly after unlockTime
vestedStrictlyAfter(profile, time) == profile.lockedBalance > 0 /\ time > profile.unlockTime

\* claimRevenue line 105: the locked balance has vested
vested(profile, time) == profile.lockedBalance > 0 /\ time >= profile.unlockTime

\* variant: the require is missing
nothingToClaimNever(payout) == FALSE

\* claimRevenue line 111: require(payout > 0, "Nothing to claim") fails
nothingToClaim(payout) == ~(payout > 0)

\* variant: the event carries the net income in place of the locked amount
EventWithNetIncome(name, author, amount, fee, locked) ==
  [name |-> name, author |-> author, amount |-> amount, fee |-> fee, locked |-> amount - fee]

Event(name, author, amount, fee, locked) ==
  [name |-> name, author |-> author, amount |-> amount, fee |-> fee, locked |-> locked]

\* variant: the locked share is not credited
creditProfileNoLock(profile, toRelease, toLock, time, lockPeriod) ==
  [profile EXCEPT !.availableBalance = @ + toRelease]

\* the profile after settlePayment credited toRelease and toLock (lines 91-97)
creditProfile(profile, toRelease, toLock, time, lockPeriod) ==
  LET credited == [profile EXCEPT !.availableBalance = @ + toRelease,
                                  !.lockedBalance = @ + toLock]
  IN IF toLock > 0
       THEN [credited EXCEPT !.unlockTime = newUnlockTime(profile, time, lockPeriod)]
       ELSE credited

RECURSIVE reenter(_, _, _, _, _)

\* function settlePayment(address author, uint256 amount) external nonReentrant onlyRole(FACILITATOR_ROLE)
\* on ledger s: the call it leaves behind, the ledger after it and the number of
\* settlements made. A revert leaves the ledger as it was (EVM transaction
\* semantics). hook is the call into the vault that the token's transfer of line 78
\* lets the caller make before it returns ("" when the token calls nobody back).
settleOn(s, caller, author, amount, hook) ==
  LET mid == [s EXCEPT !.tokenBal = Transfer(@, caller, VaultAddr, amount),
                       !.allowance[caller] = @ - amount]
      nested == reenter(mid, hook, caller, author, amount)
      m == nested.ledger
      fee == feeOf(amount, protocolFeeBps)
      netIncome == amount - fee
      cfg == tierConfig(m.authors[author].tier)
      toRelease == toReleaseOf(netIncome, cfg.immediateBps)
      toLock == netIncome - toRelease
      paid == IF fee > 0 THEN Transfer(m.tokenBal, VaultAddr, treasuryWallet, fee)
              ELSE m.tokenBal
      revertWith(err) ==
        [call |-> Reverted("settlePayment", caller, err), ledger |-> s, settles |-> 0]
  IN
  IF ~onlyRole(facilitatorRole, caller) THEN revertWith("AccessControl: missing role")
  ELSE IF author = ZeroAddr THEN revertWith("Invalid author")
  ELSE IF ~(amount > 0) THEN revertWith("Amount must be > 0")
  ELSE IF ~canPull(s, caller, amount) THEN revertWith("ERC20: transfer failed")
  ELSE
    [call |-> [op |-> "settlePayment", caller |-> caller, author |-> author,
               amount |-> amount, ok |-> TRUE, err |-> "", fee |-> fee,
               netIncome |-> netIncome, toRelease |-> toRelease, toLock |-> toLock,
               payout |-> 0,
               events |-> <<Event("PaymentSettled", author, amount, fee, toLock)>>,
               pre |-> s.authors[author],
               nested |-> [op |-> nested.call.op, ok |-> nested.call.ok,
                           err |-> nested.call.err],
               atTransfer |-> m.authors[author]],
     ledger |-> [authors |-> [m.authors EXCEPT ![author] =
                                creditProfile(@, toRelease, toLock, blockTime, cfg.lockPeriod)],
                 tokenBal |-> paid,
                 allowance |-> m.allowance],
     settles |-> nested.settles + 1]

\* function claimRevenue() external nonReentrant
\* on ledger s; hook is the call into the vault that the token's transfer of line
\* 114 lets the caller make before it returns
claimOn(s, caller, hook) ==
  LET profile == s.authors[caller]
      released == IF vested(profile, blockTime)
                    THEN [profile EXCEPT !.availableBalance = @ + profile.lockedBalance,
                                         !.lockedBalance = 0]
                    ELSE profile
      payout == released.availableBalance
      zeroed == [released EXCEPT !.availableBalance = 0]
      stored == atTransfer(released, zeroed)
      mid == [s EXCEPT !.authors[caller] = stored,
                       !.tokenBal = Transfer(@, VaultAddr, caller, payout)]
      nested == reenter(mid, hook, caller, caller, payout)
      m == nested.ledger
  IN
  IF nothingToClaim(payout)
    THEN [call |-> Reverted("claimRevenue", caller, "Nothing to claim"), ledger |-> s,
          settles |-> 0]
    ELSE [call |-> [Call("claimRevenue", caller) EXCEPT
                      !.author = caller, !.payout = payout, !.pre = profile,
                      !.events = <<Event("RevenueClaimed", caller, payout, 0, 0)>>,
                      !.nested = [op |-> nested.call.op, ok |-> nested.call.ok,
                                  err |-> nested.call.err],
                      !.atTransfer = stored],
          \* line 113 has run before the transfer, or runs after it in the variant
          ledger |-> IF stored = zeroed THEN m
                     ELSE [m EXCEPT !.authors[caller].availableBalance = 0],
          settles |-> nested.settles]

\* the call that is made from inside a token transfer of a settlePayment or a
\* claimRevenue in progress: it meets the guard entered; a nested call makes no
\* further one. A callback whose revert is passed on reverts the whole transaction
\* and leaves no trace, the callback here catches it.
reenter(s, hook, caller, author, amount) ==
  IF hook = "" THEN [call |-> NoCall, ledger |-> s, settles |-> 0]
  ELSE IF ~nonReentrant(TRUE)
    THEN [call |-> Reverted(hook, caller, "ReentrancyGuardReentrantCall"), ledger |-> s,
          settles |-> 0]
  ELSE IF hook = "claimRevenue" THEN claimOn(s, caller, "")
  ELSE settleOn(s, caller, author, amount, "")

\* a settlePayment transaction
settlePayment(caller, author, amount, hook) ==
  LET outcome == settleOn(Ledger, caller, author, amount, hook)
  IN /\ authors' = outcome.ledger.authors
     /\ tokenBal' = outcome.ledger.tokenBal
     /\ allowance' = outcome.ledger.allowance
     /\ nSettles' = nSettles + outcome.settles
     /\ lastCall' = outcome.call

\* a claimRevenue transaction
claimRevenue(caller, hook) ==
  LET outcome == claimOn(Ledger, caller, hook)
  IN /\ authors' = outcome.ledger.authors
     /\ tokenBal' = outcome.ledger.tokenBal
     /\ allowance' = outcome.ledger.allowance
     /\ nSettles' = nSettles + outcome.settles
     /\ lastCall' = outcome.call

\* function setTreasury(address newTreasury) external onlyRole(DEFAULT_ADMIN_ROLE)
setTreasury(caller, newTreasury) ==
  IF ~onlyRole(adminRole, caller)
    THEN /\ lastCall' = Reverted("setTreasury", caller, "AccessControl: missing role")
         /\ UNCHANGED treasuryWallet
  ELSE IF newTreasury = ZeroAddr
    THEN /\ lastCall' = Reverted("setTreasury", caller, "Invalid treasury")
         /\ UNCHANGED treasuryWallet
  ELSE /\ treasuryWallet' = newTreasury
       /\ lastCall' = [Call("setTreasury", caller) EXCEPT !.author = newTreasury,
                         !.events = <<Event("TreasuryUpdated", newTreasury, 0, 0, 0)>>]

\* variant: every fee is accepted
validFeeBpsAny(newFeeBps) == TRUE

\* line 62: require(newFeeBps <= BPS_DENOMINATOR, "Invalid fee bps")
validFeeBps(newFeeBps) == newFeeBps <= BPS_DENOMINATOR

\* function setProtocolFeeBps(uint256 newFeeBps) external onlyRole(DEFAULT_ADMIN_ROLE)
setProtocolFeeBps(caller, newFeeBps) ==
  IF ~onlyRole(adminRole, caller)
    THEN /\ lastCall' = Reverted("setProtocolFeeBps", caller, "AccessControl: missing role")
         /\ UNCHANGED protocolFeeBps
  ELSE IF ~validFeeBps(newFeeBps)
    THEN /\ lastCall' = Reverted("setProtocolFeeBps", caller, "Invalid fee bps")
         /\ UNCHANGED protocolFeeBps
  ELSE /\ protocolFeeBps' = newFeeBps
       /\ lastCall' = [Call("setProtocolFeeBps", caller) EXCEPT !.amount = newFeeBps,
                         !.events = <<Event("ProtocolFeeUpdated", ZeroAddr, newFeeBps, 0, 0)>>]

\* function setAuthorTier(address author, uint8 tier) external onlyRole(DEFAULT_ADMIN_ROLE)
setAuthorTier(caller, author, tier) ==
  IF ~onlyRole(adminRole, caller)
    THEN /\ lastCall' = Reverted("setAuthorTier", caller, "AccessControl: missing role")
         /\ UNCHANGED authors
  ELSE IF author = ZeroAddr
    THEN /\ lastCall' = Reverted("setAuthorTier", caller, "Invalid author")
         /\ UNCHANGED authors
  ELSE IF ~(tier <= Certified)
    THEN /\ lastCall' = Reverted("setAuthorTier", caller, "Invalid tier")
         /\ UNCHANGED authors
  ELSE /\ authors' = [authors EXCEPT ![author].tier = tier]
       /\ lastCall' = [Call("setAuthorTier", caller) EXCEPT !.author = author, !.amount = tier,
                         !.events = <<Event("AuthorTierUpdated", author, tier, 0, 0)>>]

\* ERC-20 approve(vault, amount) by owner
approve(owner, amount) ==
  /\ allowance' = [allowance EXCEPT ![owner] = amount]
  /\ lastCall' = [Call("approve", owner) EXCEPT !.amount = amount]

(***************************************************************************)
(* SpecVault: the vault driven by direct contract calls                    *)
(***************************************************************************)
InitVault ==
  /\ authors = [a \in Accounts |-> DefaultProfile]
  /\ treasuryWallet = Treasury
  /\ protocolFeeBps = 100
  /\ facilitatorRole = {Fac}
  /\ tokenBal = [a \in Accounts |-> IF a = Fac THEN InitialMint ELSE 0]
  /\ allowance = [a \in Accounts |-> IF a = Fac THEN InitialMint ELSE 0]
  /\ blockTime = DeployTime
  /\ nSettles = 0
  /\ vTicks = 0
  /\ lastCall = NoCall
  /\ authState = {}
  /\ nowMs = 0
  /\ fTicks = 0
  /\ runs = <<>>
  /\ userPolicies = <<>>
  /\ lastQuery = NoQuery

VSettle ==
  /\ \E caller \in Callers, author \in {ZeroAddr, Author, Author2},
        amount \in {0, 450, 1000} :
       \* the token calls back only from a transfer that is made
       \E hook \in IF /\ onlyRole(facilitatorRole, caller)
                      /\ author # ZeroAddr
                      /\ amount > 0
                      /\ canPull(Ledger, caller, amount)
                     THEN {"", "settlePayment", "claimRevenue"}
                     ELSE {""} :
         settlePayment(caller, author, amount, hook)
  /\ UNCHANGED <<treasuryWallet, protocolFeeBps, facilitatorRole, blockTime, vTicks>>
  /\ UNCHANGED facVars
  /\ policyUntouched

VClaim ==
  /\ \E caller \in Callers, hook \in {"", "settlePayment", "claimRevenue"} :
       claimRevenue(caller, hook)
  /\ UNCHANGED <<treasuryWallet, protocolFeeBps, facilitatorRole, blockTime, vTicks>>
  /\ UNCHANGED facVars
  /\ policyUntouched

VSetTreasury ==
  /\ \E caller \in Callers, t \in {ZeroAddr, Treasury} : setTreasury(caller, t)
  /\ UNCHANGED <<authors, protocolFeeBps, facilitatorRole, tokenBal, allowance, blockTime,
                 nSettles, vTicks>>
  /\ UNCHANGED facVars
  /\ policyUntouched

VSetProtocolFeeBps ==
  /\ \E caller \in Callers, f \in {100, 10000, 10001} : setProtocolFeeBps(caller, f)
  /\ UNCHANGED <<authors, treasuryWallet, facilitatorRole, tokenBal, allowance, blockTime,
                 nSettles, vTicks>>
  /\ UNCHANGED facVars
  /\ policyUntouched

VSetAuthorTier ==
  /\ \E caller \in Callers, a \in {ZeroAddr, Author}, t \in {0, 1, 2, 3} :
       setAuthorTier(caller, a, t)
  /\ UNCHANGED <<treasuryWallet, protocolFeeBps, facilitatorRole, tokenBal, allowance,
                 blockTime, nSettles, vTicks>>
  /\ UNCHANGED facVars
  /\ policyUntouched

VTick ==
  /\ vTicks < MaxVaultTicks
  /\ \E dt \in {ONE_DAY, 15 * ONE_DAY} : blockTime' = blockTime + dt
  /\ vTicks' = vTicks + 1
  /\ lastCall' = NoCall
  /\ UNCHANGED <<authors, treasuryWallet, protocolFeeBps, facilitatorRole, tokenBal,
                 allowance, nSettles>>
  /\ UNCHANGED facVars
  /\ policyUntouched

NextVault ==
  \/ VSettle
  \/ VClaim
  \/ VSetTreasury
  \/ VSetProtocolFeeBps
  \/ VSetAuthorTier
  \/ VTick

SpecVault == InitVault /\ [][NextVault]_vars

(***************************************************************************)
(* The token ledger (EIP-3009 USDC), as the facilitator's ABI uses it       *)
(***************************************************************************)
\* String.prototype.toLowerCase on the addresses the model uses
toLowerCase(a) ==
  CASE a = FacUpper -> Fac
    [] a = PayerUpper -> Payer
    [] a = ShopUpper -> "shop.example"
    [] OTHER -> a

\* two authorizations denote the same typed-data message (addresses are bytes,
\* their letter case is not part of the message)
sameMessage(a, b) ==
  /\ toLowerCase(a.from) = toLowerCase(b.from)
  /\ toLowerCase(a.to) = toLowerCase(b.to)
  /\ a.value = b.value
  /\ a.validAfter = b.validAfter
  /\ a.validBefore = b.validBefore
  /\ a.nonce = b.nonce

\* signature recovery: the signature is by signer over the message signed; it
\* verifies for an authorization iff it is over that message by its from address
recovers(signature, authorization) ==
  /\ sameMessage(signature.signed, authorization)
  /\ toLowerCase(signature.signer) = toLowerCase(authorization.from)

\* transferWithAuthorization executes (does not revert) at block time t
canTransferWithAuthorization(a, signature, t) ==
  /\ recovers(signature, a)
  /\ t > a.validAfter
  /\ t < a.validBefore
  /\ <<toLowerCase(a.from), a.nonce>> \notin authState
  /\ tokenBal[toLowerCase(a.from)] >= a.value

(***************************************************************************)
(* x402-facilitator/src/services/executor.ts                               *)
(***************************************************************************)
Auth(from, to, value, validAfter, validBefore, nonce) ==
  [from |-> from, to |-> to, value |-> value, validAfter |-> validAfter,
   validBefore |-> validBefore, nonce |-> nonce]

\* a PaymentRequest; signer signed the message signed
Request(user, merchant, amount, authorAddress, authorization, signer, signed) ==
  [userAddress |-> user,
   challenge |-> [merchantAddress |-> merchant, merchantDomain |-> "shop.example",
                  amount |-> amount, network |-> "avalanche-fuji",
                  authorAddress |-> authorAddress],
   signedPayload |-> [signature |-> [signer |-> signer, signed |-> signed],
                      authorization |-> authorization]]

NoRequest == Request(ZeroAddr, ZeroAddr, 0, NoAuthor, Auth(ZeroAddr, ZeroAddr, 0, 0, 0, 0),
                     ZeroAddr, Auth(ZeroAddr, ZeroAddr, 0, 0, 0, 0))

NoResult == [success |-> FALSE, errorCode |-> "", transactionHash |-> "", details |-> <<>>]

Failure(errorCode, hash) ==
  [success |-> FALSE, errorCode |-> errorCode, transactionHash |-> hash, details |-> <<>>]

\* an exception that leaves executePayment
Thrown == [success |-> FALSE, errorCode |-> "THROWN", transactionHash |-> "", details |-> <<>>]

Success(hash, a) ==
  [success |-> TRUE, errorCode |-> "", transactionHash |-> hash,
   details |-> <<a.from, VaultAddr, a.value, "avalanche-fuji">>]

IdleRun == [pc |-> "idle", req |-> NoRequest, result |-> NoResult,
            nBalanceOf |-> 0, nAuthorizationState |-> 0, txs |-> <<>>,
            collected |-> FALSE, status |-> 0, allowed |-> TRUE, reason |-> ""]

\* variant: every signature verifies
verifySignatureAlways(request) == TRUE

\* verifySignature: verifyTypedData against authorization.from, false when it throws
verifySignature(request) ==
  recovers(request.signedPayload.signature, request.signedPayload.authorization)

\* const now = BigInt(Math.floor(Date.now() / 1000))
nowSeconds == nowMs \div 1000

\* variant: only an authorization that is not yet valid is outside the window
outsideWindowNoExpiry(now, a) == now < a.validAfter

\* if (now < validAfter || now > validBefore)
outsideWindow(now, a) == now < a.validAfter \/ now > a.validBefore

\* variant: the nonce lookup is skipped
isNonceUsedNever(authorizer, nonce) == FALSE

\* isNonceUsed: authorizationState(authorizer, nonce) as the ledger has it
isNonceUsed(authorizer, nonce) == <<toLowerCase(authorizer), nonce>> \in authState

\* variant: a run that failed starts over
finishOrRetry(i, result) ==
  runs' = [runs EXCEPT ![i].pc = IF result.success THEN "done" ELSE "verify",
                       ![i].result = result]

finish(i, result) ==
  runs' = [runs EXCEPT ![i].pc = "done", ![i].result = result]

goto(i, pc) == runs' = [runs EXCEPT ![i].pc = pc]

\* lines 101-112: verifySignature, then the validity window
ExecVerify(i) ==
  LET r == runs[i]
      a == r.req.signedPayload.authorization
  IN /\ r.pc = "verify"
     /\ IF ~verifySignature(r.req) THEN finish(i, Failure("INVALID_SIGNATURE", ""))
        ELSE IF outsideWindow(nowSeconds, a) THEN finish(i, Failure("EXPIRED", ""))
        ELSE goto(i, "balance")
     /\ UNCHANGED <<vaultVars, authState, nowMs, fTicks>>

\* lines 114-118: checkBalance is awaited outside the try block, an RPC error leaves executePayment
ExecBalance(i) ==
  LET r == runs[i]
      a == r.req.signedPayload.authorization
      read == [r EXCEPT !.nBalanceOf = @ + 1]
  IN /\ r.pc = "balance"
     /\ \/ runs' = [runs EXCEPT ![i] = [read EXCEPT !.pc = "done", !.result = Thrown]]
        \/ IF tokenBal[toLowerCase(a.from)] < a.value
             THEN runs' = [runs EXCEPT ![i] =
                             [read EXCEPT !.pc = "done",
                                          !.result = Failure("INSUFFICIENT_BALANCE", "")]]
             ELSE runs' = [runs EXCEPT ![i] = [read EXCEPT !.pc = "nonce"]]
     /\ UNCHANGED <<vaultVars, authState, nowMs, fTicks>>

\* lines 120-123: isNonceUsed answers false when the read fails
ExecNonce(i) ==
  LET r == runs[i]
      a == r.req.signedPayload.authorization
      read == [r EXCEPT !.nAuthorizationState = @ + 1]
  IN /\ r.pc = "nonce"
     /\ \E used \in {isNonceUsed(a.from, a.nonce), FALSE} :
          IF used
            THEN runs' = [runs EXCEPT ![i] =
                            [read EXCEPT !.pc = "done",
                                         !.result = Failure("TRANSACTION_FAILED", "")]]
            ELSE runs' = [runs EXCEPT ![i] = [read EXCEPT !.pc = "collect"]]
     /\ UNCHANGED <<vaultVars, authState, nowMs, fTicks>>

\* lines 132-138: writeContract(transferWithAuthorization); it throws on an RPC
\* error and when the gas estimate finds that the call would revert
ExecCollectSubmit(i) ==
  LET r == runs[i]
      a == r.req.signedPayload.authorization
  IN /\ r.pc = "collect"
     /\ \/ finish(i, Failure("TRANSACTION_FAILED", ""))
        \/ /\ canTransferWithAuthorization(a, r.req.signedPayload.signature, blockTime)
           /\ runs' = [runs EXCEPT ![i].pc = "collectReceipt", ![i].txs = Append(@, "collect")]
     /\ UNCHANGED <<vaultVars, authState, nowMs, fTicks>>

\* variant: the receipt status of the collection is not looked at
collectFailedIgnored(mined) == FALSE

\* line 140: collectReceipt.status !== 'success'
collectFailed(mined) == ~mined

\* lines 139-142: the collection is mined, then waitForTransactionReceipt
\* returns its status or throws
ExecCollectReceipt(i) ==
  LET r == runs[i]
      a == r.req.signedPayload.authorization
      mined == canTransferWithAuthorization(a, r.req.signedPayload.signature, blockTime)
  IN /\ r.pc = "collectReceipt"
     /\ IF mined
          THEN /\ tokenBal' = Transfer(tokenBal, toLowerCase(a.from), toLowerCase(a.to), a.value)
               /\ authState' = authState \cup {<<toLowerCase(a.from), a.nonce>>}
          ELSE UNCHANGED <<tokenBal, authState>>
     /\ \/ runs' = [runs EXCEPT ![i].pc = "done", ![i].collected = mined,
                                   ![i].result = Failure("TRANSACTION_FAILED", "")]
        \/ IF collectFailed(mined)
             THEN runs' = [runs EXCEPT ![i].pc = "done", ![i].collected = mined,
                                       ![i].result = Failure("TRANSACTION_FAILED", "collect")]
             ELSE runs' = [runs EXCEPT ![i].pc = "allowance", ![i].collected = mined]
     /\ UNCHANGED <<authors, treasuryWallet, protocolFeeBps, facilitatorRole, allowance,
                    blockTime, nSettles, vTicks, lastCall, nowMs, fTicks>>

\* variant: an approval is submitted whatever the allowance is
needsApprovalAlways(currentAllowance, amount) == TRUE

\* line 152: const needsApproval = currentAllowance < amount
needsApproval(currentAllowance, amount) == currentAllowance < amount

\* lines 145-152: allowance(facilitator, vault)
ExecAllowance(i) ==
  LET r == runs[i]
      a == r.req.signedPayload.authorization
  IN /\ r.pc = "allowance"
     /\ \/ finish(i, Failure("TRANSACTION_FAILED", ""))
        \/ IF needsApproval(allowance[Fac], a.value) THEN goto(i, "approve")
           ELSE goto(i, "settle")
     /\ UNCHANGED <<vaultVars, authState, nowMs, fTicks>>

\* lines 154-160: writeContract(approve(vault, 2^256 - 1))
ExecApproveSubmit(i) ==
  LET r == runs[i]
  IN /\ r.pc = "approve"
     /\ \/ finish(i, Failure("TRANSACTION_FAILED", ""))
        \/ runs' = [runs EXCEPT ![i].pc = "approveReceipt", ![i].txs = Append(@, "approve")]
     /\ UNCHANGED <<vaultVars, authState, nowMs, fTicks>>

\* lines 161-164: the approval is mined (the ledger may refuse it), then the receipt
ExecApproveReceipt(i) ==
  LET r == runs[i]
  IN /\ r.pc = "approveReceipt"
     /\ \E mined \in BOOLEAN :
          /\ IF mined THEN approve(Fac, UnlimitedAllowance)
                      ELSE UNCHANGED <<allowance, lastCall>>
          /\ \/ finish(i, Failure("TRANSACTION_FAILED", ""))
             \/ IF ~mined THEN finish(i, Failure("TRANSACTION_FAILED", "approve"))
                ELSE goto(i, "settle")
     /\ UNCHANGED <<authors, treasuryWallet, protocolFeeBps, facilitatorRole, tokenBal,
                    blockTime, nSettles, vTicks, authState, nowMs, fTicks>>

\* settlePayment(caller, author, amount) would execute in the current state
canSettle(caller, author, amount) ==
  /\ onlyRole(facilitatorRole, caller)
  /\ author # ZeroAddr
  /\ amount > 0
  /\ canPull(Ledger, caller, amount)

\* lines 167-179: the author address of the challenge, then writeContract(settlePayment)
ExecSettleSubmit(i) ==
  LET r == runs[i]
      a == r.req.signedPayload.authorization
      authorAddress == r.req.challenge.authorAddress
  IN /\ r.pc = "settle"
     /\ IF authorAddress = NoAuthor THEN finish(i, Failure("TRANSACTION_FAILED", ""))
        ELSE \/ finish(i, Failure("TRANSACTION_FAILED", ""))
             \/ /\ canSettle(Fac, authorAddress, a.value)
                /\ runs' = [runs EXCEPT ![i].pc = "settleReceipt", ![i].txs = Append(@, "settle")]
     /\ UNCHANGED <<vaultVars, authState, nowMs, fTicks>>

\* lines 180-189: the settlement is mined by the vault, then the receipt
ExecSettleReceipt(i) ==
  LET r == runs[i]
      a == r.req.signedPayload.authorization
  IN /\ r.pc = "settleReceipt"
     \* the token of the deployment (USDC) makes no calls from its transfers
     /\ settlePayment(Fac, r.req.challenge.authorAddress, a.value, "")
     /\ \/ finish(i, Failure("TRANSACTION_FAILED", ""))
        \/ IF ~lastCall'.ok THEN finish(i, Failure("TRANSACTION_FAILED", "settle"))
           ELSE finish(i, Success("settle", a))
     /\ UNCHANGED <<treasuryWallet, protocolFeeBps, facilitatorRole, blockTime, vTicks,
                    authState, nowMs, fTicks>>

ExecStep(i) ==
  /\ \/ ExecVerify(i)
     \/ ExecBalance(i)
     \/ ExecNonce(i)
     \/ ExecCollectSubmit(i)
     \/ ExecCollectReceipt(i)
     \/ ExecAllowance(i)
     \/ ExecApproveSubmit(i)
     \/ ExecApproveReceipt(i)
     \/ ExecSettleSubmit(i)
     \/ ExecSettleReceipt(i)
  /\ policyUntouched

(***************************************************************************)
(* SpecExec: executePayment runs, interleaved at their awaits              *)
(***************************************************************************)
\* the authorization the payer signs, and requests that differ from it in one respect
GoodAuth(value, nonce) == Auth(Payer, Fac, value, 0, FarFuture, nonce)

GoodRequest(value, nonce) ==
  Request(Payer, Fac, value, Author, GoodAuth(value, nonce), Payer, GoodAuth(value, nonce))

ExpiredAuth == Auth(Payer, Fac, SmallValue, 0, StartSeconds - 1, 1)
ClosingAuth == Auth(Payer, Fac, SmallValue, 0, StartSeconds + 1, 2)
NotYetAuth == Auth(Payer, Fac, SmallValue, StartSeconds + 1, FarFuture, 3)

ExecRequests ==
  { GoodRequest(SmallValue, 1),
    \* the same kind of request with another challenge.network
    [GoodRequest(LargeValue, 1) EXCEPT !.challenge.network = "base-sepolia"],
    \* signed by another key
    Request(Payer, Fac, SmallValue, Author, GoodAuth(SmallValue, 1), Mallory, GoodAuth(SmallValue, 1)),
    \* expired, validly signed and signed by another key
    Request(Payer, Fac, SmallValue, Author, ExpiredAuth, Payer, ExpiredAuth),
    Request(Payer, Fac, SmallValue, Author, ExpiredAuth, Mallory, ExpiredAuth),
    \* valid for one more second, and not yet valid
    Request(Payer, Fac, SmallValue, Author, ClosingAuth, Payer, ClosingAuth),
    Request(Payer, Fac, SmallValue, Author, NotYetAuth, Payer, NotYetAuth),
    \* collected by the merchant instead of the facilitator
    Request(Payer, Merchant, SmallValue, Author,
            Auth(Payer, Merchant, SmallValue, 0, FarFuture, 1), Payer,
            Auth(Payer, Merchant, SmallValue, 0, FarFuture, 1)),
    \* no extra.authorAddress in the challenge
    Request(Payer, Fac, SmallValue, NoAuthor, GoodAuth(SmallValue, 1), Payer, GoodAuth(SmallValue, 1)) }

InitLedger ==
  /\ authors = [a \in Accounts |-> DefaultProfile]
  /\ treasuryWallet = Treasury
  /\ protocolFeeBps = 100
  /\ facilitatorRole = {Fac}
  /\ tokenBal = [a \in Accounts |-> IF a = Payer THEN PayerFunds
                                    ELSE IF a = Fac THEN FacFloat ELSE 0]
  /\ allowance = [a \in Accounts |-> 0]
  /\ blockTime = StartSeconds
  /\ nSettles = 0
  /\ vTicks = 0
  /\ lastCall = NoCall
  /\ authState = {}
  /\ nowMs = StartSeconds * 1000
  /\ fTicks = 0
  /\ userPolicies = <<>>
  /\ lastQuery = NoQuery

InitFac ==
  /\ InitLedger
  /\ runs = [i \in RunIds |-> IdleRun]

\* a caller invokes executor.executePayment(request)
ExecStart(i) ==
  /\ runs[i].pc = "idle"
  /\ \E req \in ExecRequests : runs' = [runs EXCEPT ![i].pc = "verify", ![i].req = req]
  /\ UNCHANGED <<vaultVars, authState, nowMs, fTicks>>
  /\ policyUntouched

\* a second passes, on the facilitator's clock and on the chain
ExecTick ==
  /\ fTicks < MaxTicks
  /\ fTicks' = fTicks + 1
  /\ nowMs' = nowMs + 1000
  /\ blockTime' = (nowMs + 1000) \div 1000
  /\ UNCHANGED <<authors, treasuryWallet, protocolFeeBps, facilitatorRole, tokenBal,
                 allowance, nSettles, vTicks, lastCall, authState, runs>>
  /\ policyUntouched

NextExec ==
  \/ \E i \in RunIds : ExecStart(i)
  \/ \E i \in RunIds : ExecStep(i)
  \/ ExecTick

SpecExec == InitFac /\ [][NextExec]_vars

(***************************************************************************)
(* SpecExecFair: executePayment runs whose awaited calls all return or     *)
(* throw in the end                                                        *)
(***************************************************************************)
InitFair ==
  /\ InitLedger
  /\ runs = [i \in 1..NumFair |-> IdleRun]

NextFair ==
  \/ \E i \in 1..NumFair : ExecStart(i)
  \/ \E i \in 1..NumFair : ExecStep(i)
  \/ ExecTick

SpecExecFair ==
  InitFair /\ [][NextFair]_vars /\ \A i \in 1..NumFair : WF_vars(ExecStep(i))

(***************************************************************************)
(* x402-facilitator/src/store/userPolicy.ts                                *)
(***************************************************************************)
MAX_TRANSACTION_AMOUNT == 100000000

DAILY_SPENDING_LIMIT == 500000000

ONE_DAY_MS == 24 * 60 * 60 * 1000

\* the policy getUserPolicy stores on first use
NewPolicy(userAddress) ==
  [userAddress |-> userAddress,
   maxTransactionAmount |-> MAX_TRANSACTION_AMOUNT,
   dailySpendingLimit |-> DAILY_SPENDING_LIMIT,
   spentToday |-> 0,
   lastResetTimestamp |-> nowMs,
   authorizedMerchants |-> {},
   authorizedDomains |-> {},
   autoPayEnabled |-> TRUE]

\* the store after getUserPolicy(userAddress): the policy is created when absent
created(store, userAddress) ==
  LET key == toLowerCase(userAddress)
  IN IF key \in DOMAIN store THEN store ELSE store @@ (key :> NewPolicy(userAddress))

\* getUserPolicy: the policy the call returns
getUserPolicy(store, userAddress) == created(store, userAddress)[toLowerCase(userAddress)]

\* updateUserPolicy: { ...policy, ...updates } replaces the stored policy
updateUserPolicy(store, userAddress, updates) ==
  LET policy == getUserPolicy(store, userAddress)
      updated == [f \in DOMAIN policy |-> IF f \in DOMAIN updates THEN updates[f] ELSE policy[f]]
  IN [created(store, userAddress) EXCEPT ![toLowerCase(userAddress)] = updated]

authorizeMerchant(store, userAddress, merchantAddress) ==
  [created(store, userAddress) EXCEPT
     ![toLowerCase(userAddress)].authorizedMerchants = @ \cup {toLowerCase(merchantAddress)}]

authorizeDomain(store, userAddress, domain) ==
  [created(store, userAddress) EXCEPT
     ![toLowerCase(userAddress)].authorizedDomains = @ \cup {toLowerCase(domain)}]

\* variant: the amount replaces spentToday
recordSpendingAssigned(store, userAddress, amount) ==
  [created(store, userAddress) EXCEPT ![toLowerCase(userAddress)].spentToday = amount]

\* recordSpending: the lazy reset, then spentToday += amount
recordSpending(store, userAddress, amount) ==
  LET policy == getUserPolicy(store, userAddress)
      reset == IF nowMs - policy.lastResetTimestamp > ONE_DAY_MS
                 THEN [policy EXCEPT !.spentToday = 0, !.lastResetTimestamp = nowMs]
                 ELSE policy
  IN [created(store, userAddress) EXCEPT
        ![toLowerCase(userAddress)] = [reset EXCEPT !.spentToday = @ + amount]]

\* variant: the list of authorized merchants is not looked at
isMerchantAuthorizedByDomainOnly(store, userAddress, merchantAddress, merchantDomain) ==
  LET policy == getUserPolicy(store, userAddress)
  IN \/ merchantDomain # "" /\ toLowerCase(merchantDomain) \in policy.authorizedDomains
     \/ policy.autoPayEnabled

isMerchantAuthorized(store, userAddress, merchantAddress, merchantDomain) ==
  LET policy == getUserPolicy(store, userAddress)
  IN \/ toLowerCase(merchantAddress) \in policy.authorizedMerchants
     \/ merchantDomain # "" /\ toLowerCase(merchantDomain) \in policy.authorizedDomains
     \/ policy.autoPayEnabled

\* variant: the allowance is reset as soon as 24 hours have passed
getRemainingDailyAllowanceInclusive(store, userAddress) ==
  LET policy == getUserPolicy(store, userAddress)
      remaining == policy.dailySpendingLimit - policy.spentToday
  IN IF nowMs - policy.lastResetTimestamp >= ONE_DAY_MS THEN policy.dailySpendingLimit
     ELSE IF remaining > 0 THEN remaining ELSE 0

getRemainingDailyAllowance(store, userAddress) ==
  LET policy == getUserPolicy(store, userAddress)
      remaining == policy.dailySpendingLimit - policy.spentToday
  IN IF nowMs - policy.lastResetTimestamp > ONE_DAY_MS THEN policy.dailySpendingLimit
     ELSE IF remaining > 0 THEN remaining ELSE 0

(***************************************************************************)
(* x402-facilitator/src/services/policyValidator.ts                        *)
(***************************************************************************)
PolicyCheckResult(allowed, reason, remainingDaily) ==
  [allowed |-> allowed, reason |-> reason, remainingDaily |-> remainingDaily]

\* variant: the destination of the authorization is not looked at
destinationUnchecked(request) == TRUE

\* check 6: authorization.to against challenge.merchantAddress, lower-cased
destinationMatches(request) ==
  toLowerCase(request.signedPayload.authorization.to)
    = toLowerCase(request.challenge.merchantAddress)

\* validatePaymentRequest: the first check that fails gives the reason (the
\* amounts the two limit reasons quote are left out of the reason here); a
\* result without remainingDaily has -1 in its place
validatePaymentRequest(store, request) ==
  LET userAddress == request.userAddress
      challenge == request.challenge
      authorization == request.signedPayload.authorization
      amount == challenge.amount
      policy == getUserPolicy(store, userAddress)
      remainingDaily == getRemainingDailyAllowance(store, userAddress)
  IN IF ~isMerchantAuthorized(store, userAddress, challenge.merchantAddress,
                              challenge.merchantDomain)
       THEN PolicyCheckResult(FALSE, "Merchant not authorized by user", -1)
     ELSE IF amount > policy.maxTransactionAmount
       THEN PolicyCheckResult(FALSE, "Exceeds limit", -1)
     ELSE IF amount > remainingDaily
       THEN PolicyCheckResult(FALSE, "Exceeds daily limit", remainingDaily)
     ELSE IF toLowerCase(authorization.from) # toLowerCase(userAddress)
       THEN PolicyCheckResult(FALSE, "From address mismatch", -1)
     ELSE IF ~destinationMatches(request)
       THEN PolicyCheckResult(FALSE, "Destination mismatch", -1)
     ELSE IF authorization.value # amount
       THEN PolicyCheckResult(FALSE, "Amount mismatch", -1)
     ELSE PolicyCheckResult(TRUE, "", remainingDaily - amount)

(***************************************************************************)
(* x402-facilitator/src/controllers: POST /api/pay and the policy routes   *)
(***************************************************************************)
HTTP_STATUS == [OK |-> 200, BAD_REQUEST |-> 400, FORBIDDEN |-> 403,
                INTERNAL_SERVER_ERROR |-> 500]

\* a request body without userAddress
NoUser == ""

\* variant: the body is not checked
malformedNever(request) == FALSE

malformed(request) == request.userAddress = NoUser

\* the handler has answered run i
respond(i, req, status, allowed, reason, result) ==
  runs' = [runs EXCEPT ![i].pc = "responded", ![i].req = req, ![i].status = status,
                       ![i].allowed = allowed, ![i].reason = reason, ![i].result = result]

\* POST /api/pay, lines 17-35: the body check and the policy validation; an
\* allowed request goes on to executor.executePayment
payReceived(i, req) ==
  /\ runs[i].pc = "idle"
  /\ IF malformed(req)
       THEN /\ respond(i, req, HTTP_STATUS.BAD_REQUEST, runs[i].allowed, "Invalid request",
                       Failure("POLICY_VIOLATION", ""))
            /\ UNCHANGED userPolicies
       ELSE LET policyCheck == validatePaymentRequest(userPolicies, req)
            IN /\ userPolicies' = created(userPolicies, req.userAddress)
               /\ IF ~policyCheck.allowed
                    THEN respond(i, req, HTTP_STATUS.FORBIDDEN, FALSE, policyCheck.reason,
                                 Failure("POLICY_VIOLATION", ""))
                    ELSE runs' = [runs EXCEPT ![i].pc = "verify", ![i].req = req]
  /\ lastQuery' = NoQuery
  /\ UNCHANGED <<vaultVars, authState, nowMs, fTicks>>

\* variant: spending is recorded whatever the result
resultSuccessAlways(result) == TRUE

\* line 37: if (result.success)
resultSuccess(result) == result.success

\* POST /api/pay, lines 37-50: the executor's result is answered; spending is recorded on success
PayRespond(i) ==
  LET r == runs[i]
  IN /\ r.pc = "done"
     /\ IF r.result = Thrown
          THEN /\ respond(i, r.req, HTTP_STATUS.INTERNAL_SERVER_ERROR, r.allowed, r.reason,
                          Failure("TRANSACTION_FAILED", ""))
               /\ UNCHANGED userPolicies
        ELSE IF resultSuccess(r.result)
          THEN /\ userPolicies' = recordSpending(userPolicies, r.req.userAddress,
                                                 r.req.challenge.amount)
               /\ respond(i, r.req, HTTP_STATUS.OK, r.allowed, r.reason, r.result)
        ELSE /\ respond(i, r.req, HTTP_STATUS.BAD_REQUEST, r.allowed, r.reason, r.result)
             /\ UNCHANGED userPolicies
     /\ lastQuery' = NoQuery
     /\ UNCHANGED <<vaultVars, authState, nowMs, fTicks>>

\* /^0x[a-fA-F0-9]{40}$/.test(userAddress)
isAddress(userAddress) == toLowerCase(userAddress) \in Accounts

\* GET /api/policy/:userAddress
getPolicy(userAddress) ==
  /\ IF ~isAddress(userAddress)
       THEN /\ lastQuery' = [status |-> HTTP_STATUS.BAD_REQUEST]
            /\ UNCHANGED userPolicies
       ELSE /\ userPolicies' = created(userPolicies, userAddress)
            /\ lastQuery' = [status |-> HTTP_STATUS.OK,
                             policy |-> getUserPolicy(userPolicies, userAddress),
                             remainingDailyAllowance |->
                               getRemainingDailyAllowance(userPolicies, userAddress),
                             at |-> nowMs]
  /\ UNCHANGED <<vaultVars, facVars>>

\* POST /api/policy/:userAddress
updatePolicy(userAddress, updates) ==
  /\ IF ~isAddress(userAddress) THEN UNCHANGED userPolicies
     ELSE userPolicies' = updateUserPolicy(userPolicies, userAddress, updates)
  /\ lastQuery' = NoQuery
  /\ UNCHANGED <<vaultVars, facVars>>

\* POST /api/policy/:userAddress/authorize-merchant
authorizeMerchantEndpoint(userAddress, body) ==
  /\ IF ~isAddress(userAddress) THEN UNCHANGED userPolicies
     ELSE LET withMerchant == IF body.merchantAddress # ""
                                THEN authorizeMerchant(userPolicies, userAddress,
                                                       body.merchantAddress)
                                ELSE userPolicies
              withDomain == IF body.domain # ""
                              THEN authorizeDomain(withMerchant, userAddress, body.domain)
                              ELSE withMerchant
          IN userPolicies' = created(withDomain, userAddress)
  /\ lastQuery' = NoQuery
  /\ UNCHANGED <<vaultVars, facVars>>

(***************************************************************************)
(* SpecPay: the facilitator's HTTP handlers, interleaved at their awaits   *)
(***************************************************************************)
\* a challenge without merchantDomain
withoutDomain(request) == [request EXCEPT !.challenge.merchantDomain = ""]

PayRequests ==
  { GoodRequest(SmallValue, 1),
    \* the same addresses in another letter case, no merchantDomain
    withoutDomain(Request(PayerUpper, FacUpper, SmallValue, Author, GoodAuth(SmallValue, 1),
                          Payer, GoodAuth(SmallValue, 1))),
    \* the challenge names a merchant the authorization does not pay
    Request(Payer, Merchant, SmallValue, Author, GoodAuth(SmallValue, 1), Payer,
            GoodAuth(SmallValue, 1)),
    withoutDomain(Request(Payer, Merchant, LargeValue, Author, GoodAuth(LargeValue, 2), Payer,
                          GoodAuth(LargeValue, 2))),
    \* an authorization of another account
    Request(Payer, Fac, SmallValue, Author, Auth(Mallory, Fac, SmallValue, 0, FarFuture, 1),
            Mallory, Auth(Mallory, Fac, SmallValue, 0, FarFuture, 1)),
    \* an authorization of another value
    Request(Payer, Fac, SmallValue, Author, GoodAuth(LargeValue, 2), Payer,
            GoodAuth(LargeValue, 2)),
    \* no userAddress
    Request(NoUser, Merchant, SmallValue, Author, GoodAuth(SmallValue, 1), Payer,
            GoodAuth(SmallValue, 1)) }

\* a known address and one that is not 0x followed by 40 hex digits
PolicyUsers == {Payer, "0x12"}

TightDailyLimit == 30

TightTransactionLimit == 50

PayReceive(i) == \E req \in PayRequests : payReceived(i, req)

PolGet == \E userAddress \in PolicyUsers : getPolicy(userAddress)

PolUpdate ==
  \E userAddress \in PolicyUsers,
     updates \in { [dailySpendingLimit |-> TightDailyLimit],
                   [maxTransactionAmount |-> TightTransactionLimit,
                    autoPayEnabled |-> FALSE] } :
    updatePolicy(userAddress, updates)

PolAuthorize ==
  \E userAddress \in PolicyUsers,
     body \in { [merchantAddress |-> FacUpper, domain |-> ShopUpper] } :
    authorizeMerchantEndpoint(userAddress, body)

\* a day passes, or a day and a millisecond
PayTick ==
  /\ fTicks < MaxTicks
  /\ fTicks' = fTicks + 1
  /\ \E dt \in {ONE_DAY_MS, ONE_DAY_MS + 1} :
       /\ nowMs' = nowMs + dt
       /\ blockTime' = (nowMs + dt) \div 1000
  /\ UNCHANGED <<authors, treasuryWallet, protocolFeeBps, facilitatorRole, tokenBal,
                 allowance, nSettles, vTicks, lastCall, authState, runs>>
  /\ policyUntouched

InitPay ==
  /\ InitLedger
  /\ runs = [i \in PayIds |-> IdleRun]

NextPay ==
  \/ \E i \in PayIds : PayReceive(i)
  \/ \E i \in PayIds : ExecStep(i)
  \/ \E i \in PayIds : PayRespond(i)
  \/ PolGet
  \/ PolUpdate
  \/ PolAuthorize
  \/ PayTick

SpecPay == InitPay /\ [][NextPay]_vars

(***************************************************************************)
(* SpecRace: POST /api/pay requests of one address in flight together,     *)
(* under a daily limit that admits each of them but not two                *)
(***************************************************************************)
\* the dailySpendingLimit the payer has set with POST /api/policy/:userAddress
RaceDailyLimit == 50

RaceReceive(i) ==
  \E req \in {GoodRequest(SmallValue, 1), GoodRequest(SmallValue, 3), GoodRequest(LargeValue, 2)} :
    payReceived(i, req)

\* the state after the payer's policy update, before any payment
InitRace ==
  /\ authors = [a \in Accounts |-> DefaultProfile]
  /\ treasuryWallet = Treasury
  /\ protocolFeeBps = 100
  /\ facilitatorRole = {Fac}
  /\ tokenBal = [a \in Accounts |-> IF a = Payer THEN PayerFunds
                                    ELSE IF a = Fac THEN FacFloat ELSE 0]
  /\ allowance = [a \in Accounts |-> 0]
  /\ blockTime = StartSeconds
  /\ nSettles = 0
  /\ vTicks = 0
  /\ lastCall = NoCall
  /\ authState = {}
  /\ nowMs = StartSeconds * 1000
  /\ fTicks = 0
  /\ userPolicies = updateUserPolicy(<<>>, Payer, [dailySpendingLimit |-> RaceDailyLimit])
  /\ lastQuery = NoQuery
  /\ runs = [i \in 1..NumRacers |-> IdleRun]

NextRace ==
  \/ \E i \in 1..NumRacers : RaceReceive(i)
  \/ \E i \in 1..NumRacers : ExecStep(i)
  \/ \E i \in 1..NumRacers : PayRespond(i)

SpecRace == InitRace /\ [][NextRace]_vars

(***************************************************************************)
(* SpecSerial: POST /api/pay requests of one address, each sent after the  *)
(* one before it has been answered; the policy is set before the first     *)
(***************************************************************************)
\* a request arrives while no other is being processed
SerialReceive(i) ==
  /\ \A j \in 1..NumSerial : j # i => runs[j].pc \in {"idle", "responded"}
  /\ \E req \in {GoodRequest(SmallValue, 1), GoodRequest(SmallValue, 3),
                 GoodRequest(LargeValue, 2)} :
       payReceived(i, req)

\* the state after the payer's policy update, before any payment
InitSerial ==
  /\ authors = [a \in Accounts |-> DefaultProfile]
  /\ treasuryWallet = Treasury
  /\ protocolFeeBps = 100
  /\ facilitatorRole = {Fac}
  /\ tokenBal = [a \in Accounts |-> IF a = Payer THEN PayerFunds
                                    ELSE IF a = Fac THEN FacFloat ELSE 0]
  /\ allowance = [a \in Accounts |-> 0]
  /\ blockTime = StartSeconds
  /\ nSettles = 0
  /\ vTicks = 0
  /\ lastCall = NoCall
  /\ authState = {}
  /\ nowMs = StartSeconds * 1000
  /\ fTicks = 0
  /\ \E limit \in {RaceDailyLimit, 2 * RaceDailyLimit} :
       userPolicies = updateUserPolicy(<<>>, Payer, [dailySpendingLimit |-> limit])
  /\ lastQuery = NoQuery
  /\ runs = [i \in 1..NumSerial |-> IdleRun]

NextSerial ==
  \/ \E i \in 1..NumSerial : SerialReceive(i)
  \/ \E i \in 1..NumSerial : ExecStep(i)
  \/ \E i \in 1..NumSerial : PayRespond(i)
  \/ PayTick

SpecSerial == InitSerial /\ [][NextSerial]_vars

(***************************************************************************)
(* x402-merchant: utils/x402.ts, services/facilitator, purchaseProduct and *)
(* the paywall middleware                                                   *)
(***************************************************************************)
X402_VERSION == 1

MERCHANT_HTTP_STATUS ==
  [OK |-> 200, BAD_REQUEST |-> 400, PAYMENT_REQUIRED |-> 402, FORBIDDEN |-> 403,
   NOT_FOUND |-> 404, INTERNAL_SERVER_ERROR |-> 500]

NETWORKS == {"avalanche-fuji", "avalanche-mainnet", "base-sepolia", "base-mainnet"}

\* config.merchant.facilitatorAddress, the payTo of every challenge
facilitatorAddress == FacUpper

\* product.priceInBaseUnits and metadata.pricePerPageBaseUnits
priceInBaseUnits == SmallValue

\* a PaymentPayload; signer signed the message signed
PaymentPayload(version, scheme, network, authorization, signer, signed) ==
  [x402Version |-> version, scheme |-> scheme, network |-> network,
   payload |-> [signature |-> [signer |-> signer, signed |-> signed],
                authorization |-> authorization]]

\* what decodePaymentHeader returns for a header that is not a payload (null)
NoPayload ==
  PaymentPayload(0, "", "", Auth(ZeroAddr, ZeroAddr, 0, 0, 0, 0), ZeroAddr,
                 Auth(ZeroAddr, ZeroAddr, 0, 0, 0, 0))

\* req.headers['x-payment']: absent, text that is not base64 JSON, or an encoded payload
NoHeader == [kind |-> "absent", json |-> NoPayload]

encodePaymentHeader(payload) == [kind |-> "base64", json |-> payload]

\* if (!paymentHeader)
headerAbsent(paymentHeader) == paymentHeader.kind = "absent"

\* decodePaymentHeader: null when the text does not parse or lacks x402Version, scheme or payload
decodePaymentHeader(headerValue) ==
  IF headerValue.kind = "base64" /\ headerValue.json.x402Version # 0
     /\ headerValue.json.scheme # ""
    THEN headerValue.json
    ELSE NoPayload

\* validatePaymentPayload at the second now; the authorization's fields are
\* non-empty strings on the wire, so the required-field loop passes
validatePaymentPayload(payload, now) ==
  LET auth == payload.payload.authorization
  IN IF payload.x402Version # X402_VERSION
       THEN [valid |-> FALSE, error |-> "Unsupported x402 version"]
     ELSE IF payload.scheme # "exact"
       THEN [valid |-> FALSE, error |-> "Unsupported scheme"]
     ELSE IF payload.network \notin NETWORKS
       THEN [valid |-> FALSE, error |-> "Unsupported network"]
     ELSE IF toLowerCase(auth.to) # toLowerCase(facilitatorAddress)
       THEN [valid |-> FALSE, error |-> "Recipient mismatch"]
     ELSE IF now < auth.validAfter THEN [valid |-> FALSE, error |-> "Not yet valid"]
     ELSE IF now > auth.validBefore THEN [valid |-> FALSE, error |-> "Expired"]
     ELSE [valid |-> TRUE, error |-> ""]

\* validatePaymentAmount
validatePaymentAmount(paidAmount, requiredAmount) ==
  IF paidAmount < requiredAmount THEN [valid |-> FALSE, error |-> "Insufficient"]
  ELSE [valid |-> TRUE, error |-> ""]

\* a response body: the requirements of a challenge, an error text, a receipt
Body(accepts, error, receipt) == [accepts |-> accepts, error |-> error, receipt |-> receipt]

\* buildPaymentRequired
buildPaymentRequired(resource, amountInBaseUnits) ==
  Body(<<[scheme |-> "exact", network |-> "avalanche-fuji",
          maxAmountRequired |-> amountInBaseUnits, resource |-> resource,
          payTo |-> facilitatorAddress]>>,
       "X-PAYMENT header is required", "")

\* FacilitatorResult of the merchant's PaymentFacilitator
ShopFailure(error, hash) == [success |-> FALSE, error |-> error, transactionHash |-> hash]

ShopSuccess(hash) == [success |-> TRUE, error |-> "", transactionHash |-> hash]

\* an exception that leaves the merchant's executePayment
ShopThrown == ShopFailure("THROWN", "")

\* one invocation of purchaseProduct or of paywall
IdleVisit ==
  [pc |-> "idle", handler |-> "", req |-> [resource |-> "", header |-> NoHeader], result |-> ShopFailure("", ""),
   nExecutePayment |-> 0, status |-> 0, body |-> Body(<<>>, "", ""), served |-> FALSE]

\* res.status(status).json(body), and whether the paid resource went out
reply(i, handler, req, status, body) ==
  runs' = [runs EXCEPT ![i].pc = "responded", ![i].handler = handler, ![i].req = req,
                       ![i].status = status, ![i].body = body]

\* purchaseProduct up to the call of executePayment (lines 24-81)
purchaseProduct(i, req) ==
  LET paymentPayload == decodePaymentHeader(req.header)
      authorization == paymentPayload.payload.authorization
      h == "purchaseProduct"
  IN /\ runs[i].pc = "idle"
     /\ IF req.resource # "found"
          THEN reply(i, h, req, MERCHANT_HTTP_STATUS.NOT_FOUND, Body(<<>>, "Product not found", ""))
        ELSE IF headerAbsent(req.header)
          THEN reply(i, h, req, MERCHANT_HTTP_STATUS.PAYMENT_REQUIRED,
                     buildPaymentRequired("/api/buy", priceInBaseUnits))
        ELSE IF paymentPayload = NoPayload
          THEN reply(i, h, req, MERCHANT_HTTP_STATUS.BAD_REQUEST,
                     Body(<<>>, "Invalid X-PAYMENT header format", ""))
        ELSE IF ~validatePaymentPayload(paymentPayload, nowSeconds).valid
          THEN reply(i, h, req, MERCHANT_HTTP_STATUS.BAD_REQUEST,
                     Body(<<>>, validatePaymentPayload(paymentPayload, nowSeconds).error, ""))
        ELSE IF ~validatePaymentAmount(authorization.value, priceInBaseUnits).valid
          THEN reply(i, h, req, MERCHANT_HTTP_STATUS.PAYMENT_REQUIRED,
                     Body(<<>>, "Insufficient payment", ""))
        \* facilitator.executePayment(paymentPayload) is called
        ELSE runs' = [runs EXCEPT ![i].pc = "verify", ![i].handler = h, ![i].req = req,
                                  ![i].nExecutePayment = @ + 1]
     /\ UNCHANGED <<vaultVars, authState, nowMs, fTicks>>
     /\ policyUntouched

\* paywall up to the call of executePayment (lines 10-63); getMetadata reads a
\* file and is the only await before the header is looked at
paywall(i, req) ==
  LET paymentPayload == decodePaymentHeader(req.header)
      authorization == paymentPayload.payload.authorization
      h == "paywall"
  IN /\ runs[i].pc = "idle"
     /\ IF req.resource = "badIndex"
          THEN reply(i, h, req, MERCHANT_HTTP_STATUS.BAD_REQUEST, Body(<<>>, "Invalid page index", ""))
        ELSE IF req.resource # "found"
          THEN reply(i, h, req, MERCHANT_HTTP_STATUS.NOT_FOUND, Body(<<>>, "Book not found", ""))
        ELSE IF headerAbsent(req.header)
          THEN reply(i, h, req, MERCHANT_HTTP_STATUS.PAYMENT_REQUIRED,
                     buildPaymentRequired("/api/read", priceInBaseUnits))
        ELSE IF paymentPayload = NoPayload
          THEN reply(i, h, req, MERCHANT_HTTP_STATUS.BAD_REQUEST,
                     Body(<<>>, "Invalid X-PAYMENT header format", ""))
        ELSE IF ~validatePaymentPayload(paymentPayload, nowSeconds).valid
          THEN reply(i, h, req, MERCHANT_HTTP_STATUS.BAD_REQUEST,
                     Body(<<>>, validatePaymentPayload(paymentPayload, nowSeconds).error, ""))
        ELSE IF ~validatePaymentAmount(authorization.value, priceInBaseUnits).valid
          THEN reply(i, h, req, MERCHANT_HTTP_STATUS.PAYMENT_REQUIRED,
                     Body(<<>>, "Insufficient payment", ""))
        \* facilitator.executePayment(paymentPayload) is called
        ELSE runs' = [runs EXCEPT ![i].pc = "verify", ![i].handler = h, ![i].req = req,
                                  ![i].nExecutePayment = @ + 1]
     /\ UNCHANGED <<vaultVars, authState, nowMs, fTicks>>
     /\ policyUntouched

\* merchant executePayment lines 245-262: verifySignature, then the validity window
ShopVerify(i) ==
  LET r == runs[i]
      p == decodePaymentHeader(r.req.header).payload
  IN /\ r.pc = "verify"
     /\ IF ~recovers(p.signature, p.authorization)
          THEN finish(i, ShopFailure("Signature verification failed", ""))
        ELSE IF nowSeconds < p.authorization.validAfter
          THEN finish(i, ShopFailure("Authorization not yet valid", ""))
        ELSE IF nowSeconds > p.authorization.validBefore
          THEN finish(i, ShopFailure("Authorization expired", ""))
        ELSE goto(i, "balance")
     /\ UNCHANGED <<vaultVars, authState, nowMs, fTicks>>
     /\ policyUntouched

\* lines 267-275: checkBalance has no try block, a failed read leaves executePayment
ShopBalance(i) ==
  LET r == runs[i]
      a == decodePaymentHeader(r.req.header).payload.authorization
  IN /\ r.pc = "balance"
     /\ \/ finish(i, ShopThrown)
        \/ IF tokenBal[toLowerCase(a.from)] < a.value
             THEN finish(i, ShopFailure("Insufficient USDC balance", ""))
             ELSE goto(i, "nonce")
     /\ UNCHANGED <<vaultVars, authState, nowMs, fTicks>>
     /\ policyUntouched

\* lines 280-286: isNonceUsed answers false when the read fails
ShopNonce(i) ==
  LET r == runs[i]
      a == decodePaymentHeader(r.req.header).payload.authorization
  IN /\ r.pc = "nonce"
     /\ \E used \in {isNonceUsed(a.from, a.nonce), FALSE} :
          IF used THEN finish(i, ShopFailure("Authorization nonce already used", ""))
          ELSE goto(i, "submit")
     /\ UNCHANGED <<vaultVars, authState, nowMs, fTicks>>
     /\ policyUntouched

\* lines 297-313: writeContract(transferWithAuthorization); it throws on an RPC
\* error and when the gas estimate finds that the call would revert
ShopSubmit(i) ==
  LET r == runs[i]
      p == decodePaymentHeader(r.req.header).payload
  IN /\ r.pc = "submit"
     /\ \/ finish(i, ShopFailure("Transaction failed", ""))
        \/ /\ canTransferWithAuthorization(p.authorization, p.signature, blockTime)
           /\ goto(i, "receipt")
     /\ UNCHANGED <<vaultVars, authState, nowMs, fTicks>>
     /\ policyUntouched

\* lines 319-341: the transfer is mined, then waitForTransactionReceipt returns
\* its status or throws
ShopReceipt(i) ==
  LET r == runs[i]
      p == decodePaymentHeader(r.req.header).payload
      a == p.authorization
      mined == canTransferWithAuthorization(a, p.signature, blockTime)
  IN /\ r.pc = "receipt"
     /\ IF mined
          THEN /\ tokenBal' = Transfer(tokenBal, toLowerCase(a.from), toLowerCase(a.to), a.value)
               /\ authState' = authState \cup {<<toLowerCase(a.from), a.nonce>>}
          ELSE UNCHANGED <<tokenBal, authState>>
     /\ \/ finish(i, ShopFailure("Transaction failed", ""))
        \/ IF mined THEN finish(i, ShopSuccess("transfer"))
           ELSE finish(i, ShopFailure("Transaction reverted", "transfer"))
     /\ UNCHANGED <<authors, treasuryWallet, protocolFeeBps, facilitatorRole, allowance,
                    blockTime, nSettles, vTicks, lastCall, nowMs, fTicks>>
     /\ policyUntouched

\* variant: the result of executePayment is not looked at
settlementFailedNever(result) == FALSE

\* if (!result.success)
settlementFailed(result) == ~result.success

\* purchaseProduct lines 83-115 and paywall lines 65-77: the handler resumes
\* with the result of executePayment, or in its catch block
ShopRespond(i) ==
  LET r == runs[i]
      answer(status, body, served) ==
        runs' = [runs EXCEPT ![i].pc = "responded", ![i].status = status,
                             ![i].body = body, ![i].served = served]
  IN /\ r.pc = "done"
     /\ IF r.result = ShopThrown
          THEN answer(MERCHANT_HTTP_STATUS.INTERNAL_SERVER_ERROR,
                      Body(<<>>, "Payment processing failed", ""), FALSE)
        ELSE IF settlementFailed(r.result)
          THEN answer(IF r.handler = "purchaseProduct"
                        THEN MERCHANT_HTTP_STATUS.PAYMENT_REQUIRED
                        ELSE MERCHANT_HTTP_STATUS.FORBIDDEN,
                      Body(<<>>, r.result.error, ""), FALSE)
        ELSE IF r.handler = "purchaseProduct"
          THEN answer(MERCHANT_HTTP_STATUS.OK, Body(<<>>, "", r.result.transactionHash), TRUE)
        \* next(): the route handler behind the paywall sends the page
        ELSE answer(MERCHANT_HTTP_STATUS.OK, Body(<<>>, "", ""), TRUE)
     /\ UNCHANGED <<vaultVars, authState, nowMs, fTicks>>
     /\ policyUntouched

(***************************************************************************)
(* SpecShop: requests to the merchant's paid routes                        *)
(***************************************************************************)
ShopPayload(authorization, signer) ==
  PaymentPayload(X402_VERSION, "exact", "avalanche-fuji", authorization, signer, authorization)

ShopHeaders ==
  { NoHeader,
    [kind |-> "garbage", json |-> NoPayload],
    encodePaymentHeader(ShopPayload(GoodAuth(SmallValue, 1), Payer)),
    \* less than the price
    encodePaymentHeader(ShopPayload(GoodAuth(SmallValue - 1, 3), Payer)),
    \* paid to the merchant's own address instead of config.merchant.facilitatorAddress
    encodePaymentHeader(ShopPayload(Auth(Payer, Merchant, SmallValue, 0, FarFuture, 1), Payer)),
    \* signed by another key
    encodePaymentHeader(ShopPayload(GoodAuth(SmallValue, 1), Mallory)),
    \* expired
    encodePaymentHeader(ShopPayload(ExpiredAuth, Payer)) }

InitShop ==
  /\ InitLedger
  /\ runs = [i \in 1..NumVisits |-> IdleVisit]

\* a product exists or not; a page exists, does not, or its index is not a number
NextShop ==
  \/ \E i \in 1..NumVisits, resource \in {"found", "missing"}, header \in ShopHeaders :
       purchaseProduct(i, [resource |-> resource, header |-> header])
  \/ \E i \in 1..NumVisits, resource \in {"found", "missing", "badIndex"},
          header \in ShopHeaders :
       paywall(i, [resource |-> resource, header |-> header])
  \/ \E i \in 1..NumVisits : ShopVerify(i)
  \/ \E i \in 1..NumVisits : ShopBalance(i)
  \/ \E i \in 1..NumVisits : ShopNonce(i)
  \/ \E i \in 1..NumVisits : ShopSubmit(i)
  \/ \E i \in 1..NumVisits : ShopReceipt(i)
  \/ \E i \in 1..NumVisits : ShopRespond(i)
  \/ ExecTick

SpecShop == InitShop /\ [][NextShop]_vars

(***************************************************************************)
(* Properties of the vault (SpecVault)                                     *)
(***************************************************************************)
\* what the step's call paid to account a, and what it credited to the vault
paidTo(a) == tokenBal'[a] - tokenBal[a]

settled == lastCall'.op = "settlePayment" /\ lastCall'.ok

\* C1: vesting release is all-or-nothing. A claimRevenue call strictly before
\* the caller's unlockTime pays out exactly the availableBalance it found and
\* leaves lockedBalance unchanged; a call at or after unlockTime pays out
\* availableBalance + lockedBalance in that one call and leaves both at zero.
C1_VestingAllOrNothing ==
  [][lastCall'.op = "claimRevenue" =>
       LET c == lastCall'.caller
           p == authors[c]
           q == authors'[c]
       IN IF blockTime < p.unlockTime
            THEN /\ paidTo(c) = p.availableBalance
                 /\ q.lockedBalance = p.lockedBalance
            ELSE /\ paidTo(c) = p.availableBalance + p.lockedBalance
                 /\ q.availableBalance = 0
                 /\ q.lockedBalance = 0]_vars

\* a claim at or after unlockTime that released a locked balance together with
\* an available one
C1_Witness ==
  /\ lastCall.op = "claimRevenue" /\ lastCall.ok
  /\ lastCall.pre.lockedBalance > 0 /\ lastCall.pre.availableBalance > 0
  /\ blockTime >= lastCall.pre.unlockTime
  /\ lastCall.payout = lastCall.pre.availableBalance + lastCall.pre.lockedBalance

\* C2: fee arithmetic. For every successful settlePayment(author, amount),
\* amount > 0 and protocolFeeBps in 0..10000, the fee sent to the treasury is
\* floor(amount * protocolFeeBps / 10000), the vault keeps netIncome = amount - fee,
\* and fee + netIncome = amount.
C2_FeeArithmetic ==
  [][settled =>
       LET amount == lastCall'.amount
           fee == paidTo(treasuryWallet)
           netIncome == paidTo(VaultAddr)
       IN /\ amount > 0
          /\ protocolFeeBps \in 0..BPS_DENOMINATOR
          /\ fee * 10000 <= amount * protocolFeeBps
          /\ amount * protocolFeeBps < (fee + 1) * 10000
          /\ netIncome = amount - fee
          /\ fee + netIncome = amount
          /\ paidTo(lastCall'.caller) = 0 - amount
          /\ lastCall'.fee = fee /\ lastCall'.netIncome = netIncome]_vars

\* a settlement whose fee is positive and was truncated
C2_Witness ==
  /\ lastCall.op = "settlePayment" /\ lastCall.ok
  /\ lastCall.fee > 0
  /\ lastCall.fee * 10000 < lastCall.amount * protocolFeeBps

\* the immediate-release share of a tier, in basis points
tierBps(tier) == CASE tier = Level0 -> 1000 [] tier = Level1 -> 5000 [] tier = Certified -> 9000

\* C3: tier split. For every successful settlePayment, with bps = 1000, 5000,
\* 9000 for Level0, Level1, Certified (the recipient's tier at the call),
\* availableBalance grows by toRelease = floor(netIncome * bps / 10000) and
\* lockedBalance by toLock = netIncome - toRelease, so toRelease + toLock = netIncome.
C3_TierSplit ==
  [][settled =>
       LET a == lastCall'.author
           bps == tierBps(authors[a].tier)
           netIncome == paidTo(VaultAddr)
           toRelease == authors'[a].availableBalance - authors[a].availableBalance
           toLock == authors'[a].lockedBalance - authors[a].lockedBalance
       IN /\ toRelease * 10000 <= netIncome * bps
          /\ netIncome * bps < (toRelease + 1) * 10000
          /\ toLock = netIncome - toRelease
          /\ toRelease + toLock = netIncome
          /\ authors'[a].tier = authors[a].tier
          /\ \A b \in Accounts \ {a} : authors'[b] = authors[b]]_vars

\* a settlement to a Certified recipient with a truncated immediate share
C3_Witness ==
  /\ lastCall.op = "settlePayment" /\ lastCall.ok
  /\ lastCall.pre.tier = Certified
  /\ lastCall.toRelease > 0 /\ lastCall.toLock > 0
  /\ lastCall.toRelease * 10000 < lastCall.netIncome * 9000

\* C5: only a holder of FACILITATOR_ROLE can settle. settlePayment called by
\* any other account reverts for the missing role, and no profile, token
\* balance, allowance or setting changes and no event is emitted.
C5_OnlyFacilitatorSettles ==
  [][(lastCall'.op = "settlePayment" /\ lastCall'.caller \notin facilitatorRole) =>
       /\ ~lastCall'.ok
       /\ lastCall'.err = "AccessControl: missing role"
       /\ lastCall'.events = <<>>
       /\ UNCHANGED <<authors, tokenBal, allowance, treasuryWallet, protocolFeeBps>>]_vars

\* a settlePayment by an account without the role, made while the facilitator
\* could have settled
C5_Witness ==
  /\ lastCall.op = "settlePayment"
  /\ lastCall.caller \notin facilitatorRole
  /\ ~lastCall.ok
  /\ tokenBal[Fac] > 0

\* C6: claimRevenue by an account with lockedBalance = 0 and availableBalance = 0
\* fails with "Nothing to claim", changes no profile and no token balance and
\* emits no event.
C6_NothingToClaim ==
  [][(/\ lastCall'.op = "claimRevenue"
      /\ authors[lastCall'.caller].lockedBalance = 0
      /\ authors[lastCall'.caller].availableBalance = 0) =>
       /\ ~lastCall'.ok
       /\ lastCall'.err = "Nothing to claim"
       /\ lastCall'.events = <<>>
       /\ UNCHANGED <<authors, tokenBal, allowance>>]_vars

\* a rejected claim of an account with empty balances, once of an account that
\* was settled to and has claimed everything
C6_Witness ==
  /\ lastCall.op = "claimRevenue" /\ ~lastCall.ok
  /\ authors[lastCall.caller].lockedBalance = 0
  /\ authors[lastCall.caller].availableBalance = 0
  /\ authors[lastCall.caller].unlockTime > 0

\* C7: for every recipient, unlockTime never decreases across settlePayment,
\* claimRevenue and setAuthorTier calls with advancing block time.
C7_UnlockTimeNeverDecreases ==
  [][\A a \in Accounts : authors'[a].unlockTime >= authors[a].unlockTime]_vars

(***************************************************************************)
(* Properties of executePayment (SpecExec)                                 *)
(***************************************************************************)
done(i) == runs[i].pc = "done"

\* two runs were given the same signed authorization
sameSigned(i, j) ==
  /\ runs[i].req.signedPayload.authorization = runs[j].req.signedPayload.authorization
  /\ runs[i].req.signedPayload.signature = runs[j].req.signedPayload.signature

RECURSIVE collectedValue(_)
\* the value the confirmed collections of the runs in S moved
collectedValue(S) ==
  IF S = {} THEN 0
  ELSE LET i == CHOOSE x \in S : TRUE
       IN (IF runs[i].collected THEN runs[i].req.signedPayload.authorization.value ELSE 0)
          + collectedValue(S \ {i})

\* value leaves the payer's account only by the confirmed collections, and of
\* two runs with the same signed authorization at most one has collected
movedAtMostOnce ==
  /\ tokenBal[Payer] = PayerFunds - collectedValue(RunIds)
  /\ \A i, j \in RunIds :
       (i # j /\ runs[i].pc # "idle" /\ runs[j].pc # "idle" /\ sameSigned(i, j))
         => ~(runs[i].collected /\ runs[j].collected)

\* C4 as stated: of two executePayment runs with the same signed Authorization
\* at most one returns success, value moves from the payer at most once, and
\* the other run (when it returns a result) fails with TRANSACTION_FAILED.
C4_ReplayFailsWithTransactionFailed ==
  /\ movedAtMostOnce
  /\ \A i, j \in RunIds :
       (i # j /\ done(i) /\ done(j) /\ sameSigned(i, j) /\ runs[i].result.success
          /\ runs[j].result # Thrown)
         => /\ ~runs[j].result.success
            /\ runs[j].result.errorCode = "TRANSACTION_FAILED"

\* C4 amended: of two executePayment runs with the same signed Authorization
\* at most one returns success and value moves from the payer at most once;
\* the other run does not succeed: it ends with TRANSACTION_FAILED, or with
\* INSUFFICIENT_BALANCE when the payer's balance no longer covers the value, or
\* with EXPIRED when it ran outside the validity window, or with the exception
\* of a failed balance lookup.
C4_NonceSingleUse ==
  /\ movedAtMostOnce
  /\ \A i, j \in RunIds :
       (i # j /\ done(i) /\ done(j) /\ sameSigned(i, j) /\ runs[i].result.success)
         => LET a == runs[j].req.signedPayload.authorization
                res == runs[j].result
            IN /\ ~res.success
               /\ res.errorCode \in {"TRANSACTION_FAILED", "INSUFFICIENT_BALANCE",
                                     "EXPIRED", "THROWN"}
               /\ res.errorCode = "INSUFFICIENT_BALANCE" => tokenBal[Payer] < a.value
               /\ res.errorCode = "EXPIRED" =>
                    (a.validAfter > StartSeconds \/ nowSeconds > a.validBefore)
               /\ res.errorCode = "THROWN" => runs[j].nAuthorizationState = 0

\* one run succeeded and the other, given the same authorization, passed the
\* balance check and was refused for the consumed nonce
C4_Witness ==
  \E i, j \in RunIds :
    /\ i # j /\ done(i) /\ done(j) /\ sameSigned(i, j)
    /\ runs[i].result.success
    /\ runs[j].result.errorCode = "TRANSACTION_FAILED"
    /\ runs[j].nBalanceOf = 1
    /\ ~runs[j].collected

\* C8: an Authorization whose validBefore is in the past is rejected by
\* executePayment with error kind EXPIRED, without a balance lookup, without a
\* nonce lookup and without a transaction.
C8_ExpiredRejectedAsExpired ==
  \A i \in RunIds :
    (done(i) /\ runs[i].req.signedPayload.authorization.validBefore < StartSeconds)
      => /\ ~runs[i].result.success
         /\ runs[i].result.errorCode = "EXPIRED"
         /\ runs[i].nBalanceOf = 0
         /\ runs[i].nAuthorizationState = 0
         /\ runs[i].txs = <<>>

(***************************************************************************)
(* Properties of the HTTP handlers (SpecPay)                               *)
(***************************************************************************)
\* the challenge names a merchant that the authorization does not pay
destinationDiffers(req) ==
  toLowerCase(req.signedPayload.authorization.to) # toLowerCase(req.challenge.merchantAddress)

\* the run made no chain read and no chain write
noChainCall(r) ==
  /\ r.nBalanceOf = 0
  /\ r.nAuthorizationState = 0
  /\ r.txs = <<>>
  /\ ~r.collected

\* the step is the arrival of the request of run i at POST /api/pay
received(i) == runs[i].pc = "idle" /\ runs'[i].pc # "idle"

\* C9 as stated: a payment request whose authorization.to differs
\* (case-insensitively) from challenge.merchantAddress is rejected by
\* validatePaymentRequest with the destination-mismatch reason, and the
\* /api/pay handler never invokes the executor for it.
C9_DestinationMismatchReason ==
  [][\A i \in PayIds :
       (received(i) /\ ~malformed(runs'[i].req) /\ destinationDiffers(runs'[i].req))
         => /\ runs'[i].pc = "responded"
            /\ ~runs'[i].allowed
            /\ runs'[i].reason = "Destination mismatch"
            /\ noChainCall(runs'[i])]_vars

\* C9 amended: a payment request with a userAddress whose authorization.to
\* differs (case-insensitively) from challenge.merchantAddress is rejected by
\* validatePaymentRequest and answered 403 POLICY_VIOLATION without the
\* executor being invoked (no chain read or write); the reason is the
\* destination mismatch exactly when the checks made before it pass (merchant
\* authorized, amount within maxTransactionAmount and within the remaining
\* daily allowance, authorization.from equal to userAddress), and otherwise
\* the reason of the first of those checks that fails.
C9_DestinationMismatchRejected ==
  [][\A i \in PayIds :
       LET r == runs'[i]
           req == r.req
           user == req.userAddress
           amount == req.challenge.amount
           earlierChecksPass ==
             /\ isMerchantAuthorized(userPolicies, user, req.challenge.merchantAddress,
                                     req.challenge.merchantDomain)
             /\ amount <= getUserPolicy(userPolicies, user).maxTransactionAmount
             /\ amount <= getRemainingDailyAllowance(userPolicies, user)
             /\ toLowerCase(req.signedPayload.authorization.from) = toLowerCase(user)
       IN (received(i) /\ ~malformed(req) /\ destinationDiffers(req))
            => /\ r.pc = "responded"
               /\ r.status = 403
               /\ ~r.allowed
               /\ r.result.errorCode = "POLICY_VIOLATION"
               /\ noChainCall(r)
               /\ r.reason \in {"Merchant not authorized by user", "Exceeds limit",
                                 "Exceeds daily limit", "From address mismatch",
                                 "Destination mismatch"}
               /\ (r.reason = "Destination mismatch") <=> earlierChecksPass]_vars

\* a request that passes the earlier checks was refused for its destination
C9_Witness ==
  \E i \in PayIds :
    /\ runs[i].pc = "responded"
    /\ ~malformed(runs[i].req)
    /\ destinationDiffers(runs[i].req)
    /\ runs[i].status = 403
    /\ runs[i].reason = "Destination mismatch"
    /\ noChainCall(runs[i])

\* C10: whenever now - lastResetTimestamp > 24h for a user's policy,
\* getRemainingDailyAllowance returns exactly dailySpendingLimit regardless of
\* the stored spentToday; otherwise it returns
\* max(dailySpendingLimit - spentToday, 0).
C10_DailyReset ==
  lastQuery.status = 200 =>
    LET policy == lastQuery.policy
        left == policy.dailySpendingLimit - policy.spentToday
    IN lastQuery.remainingDailyAllowance =
         IF lastQuery.at - policy.lastResetTimestamp > 24 * 3600 * 1000
           THEN policy.dailySpendingLimit
           ELSE IF left > 0 THEN left ELSE 0

\* the allowance was asked for more than 24 hours after the last reset, with
\* spending on record, and the full limit was returned
C10_Witness ==
  /\ lastQuery.status = 200
  /\ lastQuery.policy.spentToday > 0
  /\ lastQuery.at - lastQuery.policy.lastResetTimestamp > 24 * 3600 * 1000
  /\ lastQuery.remainingDailyAllowance = lastQuery.policy.dailySpendingLimit

\* the step answers run i after executePayment returned success
answeredSuccess(i) ==
  /\ runs[i].pc = "done"
  /\ runs'[i].pc = "responded"
  /\ runs[i].result.success

\* C11: for every /api/pay request the user's spentToday is increased by
\* challenge.amount (counted from zero, with lastResetTimestamp set to now,
\* when more than 24 hours have passed since the last reset) if and only if
\* executePayment returned success for that request; policy validation,
\* policy rejections and failed executions (and every other step) leave
\* spentToday and lastResetTimestamp of every stored policy unchanged.
C11_SpendingRecordedOnlyOnSuccess ==
  [][/\ \A i \in PayIds :
          answeredSuccess(i) => toLowerCase(runs[i].req.userAddress) \in DOMAIN userPolicies
     /\ \A k \in DOMAIN userPolicies :
          LET before == userPolicies[k]
              after == userPolicies'[k]
              due == nowMs - before.lastResetTimestamp > 24 * 3600 * 1000
              payers == {i \in PayIds :
                          answeredSuccess(i) /\ toLowerCase(runs[i].req.userAddress) = k}
          IN IF payers # {}
               THEN \E i \in payers :
                      /\ after.spentToday = (IF due THEN 0 ELSE before.spentToday)
                                               + runs[i].req.challenge.amount
                      /\ after.spentToday > (IF due THEN 0 ELSE before.spentToday)
                      /\ after.lastResetTimestamp =
                           (IF due THEN nowMs ELSE before.lastResetTimestamp)
               ELSE /\ after.spentToday = before.spentToday
                    /\ after.lastResetTimestamp = before.lastResetTimestamp]_vars

\* a successful payment has been answered and its amount is on record
C11_Witness ==
  \E i \in PayIds :
    /\ runs[i].pc = "responded"
    /\ runs[i].result.success
    /\ toLowerCase(runs[i].req.userAddress) \in DOMAIN userPolicies
    /\ userPolicies[toLowerCase(runs[i].req.userAddress)].spentToday
         = runs[i].req.challenge.amount

(***************************************************************************)
(* Further properties of the vault (SpecVault)                             *)
(***************************************************************************)
\* C12: a rejected settlePayment is atomic: when amount is 0, or the recipient
\* is the zero address, or the pull of amount from the caller into the vault
\* does not fully succeed (balance or allowance short), the call aborts, and
\* an aborted call leaves every recipient profile and every token balance
\* (the treasury's and the vault's among them) exactly as before.
C12_RejectedSettleIsAtomic ==
  [][lastCall'.op = "settlePayment" =>
       /\ lastCall'.ok =>
            /\ lastCall'.amount > 0
            /\ lastCall'.author # ZeroAddr
            /\ tokenBal[lastCall'.caller] >= lastCall'.amount
            /\ allowance[lastCall'.caller] >= lastCall'.amount
       /\ ~lastCall'.ok =>
            /\ authors' = authors
            /\ tokenBal' = tokenBal
            /\ allowance' = allowance]_vars

\* a settlement was refused because the pull failed, after an earlier one
\* had credited a recipient
C12_Witness ==
  /\ lastCall.op = "settlePayment"
  /\ ~lastCall.ok
  /\ lastCall.err = "ERC20: transfer failed"
  /\ nSettles > 0
  /\ tokenBal[VaultAddr] > 0

\* the tiers of all recipients
tiers(profiles) == [a \in Accounts |-> profiles[a].tier]

\* C13: setTreasury, setProtocolFeeBps and setAuthorTier take effect only when
\* called by an account holding the admin role; a call by any other account
\* (the facilitator included) reverts and leaves treasuryWallet,
\* protocolFeeBps and every recipient's tier unchanged.
C13_AdminOnly ==
  [][/\ (lastCall'.op \in {"setTreasury", "setProtocolFeeBps", "setAuthorTier"}
           /\ lastCall'.caller # Admin)
          => /\ ~lastCall'.ok
             /\ lastCall'.events = <<>>
             /\ treasuryWallet' = treasuryWallet
             /\ protocolFeeBps' = protocolFeeBps
             /\ tiers(authors') = tiers(authors)
     /\ (treasuryWallet' # treasuryWallet \/ protocolFeeBps' # protocolFeeBps
           \/ tiers(authors') # tiers(authors))
          => /\ lastCall'.ok
             /\ lastCall'.caller = Admin
             /\ lastCall'.op \in {"setTreasury", "setProtocolFeeBps", "setAuthorTier"}]_vars

\* the facilitator's call of an admin operation was reverted after the admin
\* had changed the fee and a tier
C13_Witness ==
  /\ lastCall.op \in {"setTreasury", "setProtocolFeeBps", "setAuthorTier"}
  /\ lastCall.caller = Fac
  /\ ~lastCall.ok
  /\ protocolFeeBps # 100
  /\ authors[Author].tier # Level0

RECURSIVE owed(_)
\* what the vault owes the recipients in S: availableBalance + lockedBalance
owed(S) ==
  IF S = {} THEN 0
  ELSE LET a == CHOOSE x \in S : TRUE
       IN authors[a].availableBalance + authors[a].lockedBalance + owed(S \ {a})

\* C14: custody invariant: after any sequence of settlePayment and
\* claimRevenue calls the vault's token balance equals the sum over all
\* recipients of availableBalance + lockedBalance, and the treasury has
\* received exactly the fees of the settlements (each successful settlement
\* adds floor(amount * protocolFeeBps / 10000) to it, no other call adds or
\* takes anything).
C14_Custody ==
  /\ [](tokenBal[VaultAddr] = owed(Accounts))
  /\ [][tokenBal'[Treasury] - tokenBal[Treasury] =
          IF lastCall'.op = "settlePayment" /\ lastCall'.ok
            THEN (lastCall'.amount * protocolFeeBps) \div 10000
            ELSE 0]_vars

\* settlements and a claim have happened; the vault still holds a locked
\* share and the treasury holds fees
C14_Witness ==
  /\ lastCall.op = "claimRevenue"
  /\ lastCall.ok
  /\ nSettles > 0
  /\ tokenBal[VaultAddr] > 0
  /\ tokenBal[Treasury] > 0

\* C15: every successful settlePayment(author, amount) emits exactly one
\* PaymentSettled event carrying (author, gross amount, fee, toLock) as that
\* call computed them, every successful claimRevenue emits exactly one
\* RevenueClaimed event carrying (caller, payout), and a reverted call emits
\* nothing.
C15_Events ==
  [][LET fee == (lastCall'.amount * protocolFeeBps) \div 10000
         netIncome == lastCall'.amount - fee
         bps == tierBps(authors[lastCall'.author].tier)
         toLock == netIncome - ((netIncome * bps) \div 10000)
     IN /\ (lastCall'.op = "settlePayment" /\ lastCall'.ok) =>
             lastCall'.events = << [name |-> "PaymentSettled", author |-> lastCall'.author,
                                    amount |-> lastCall'.amount, fee |-> fee,
                                    locked |-> toLock] >>
        /\ (lastCall'.op = "claimRevenue" /\ lastCall'.ok) =>
             /\ paidTo(lastCall'.caller) > 0
             /\ lastCall'.events = << [name |-> "RevenueClaimed", author |-> lastCall'.caller,
                                       amount |-> paidTo(lastCall'.caller), fee |-> 0,
                                       locked |-> 0] >>
        /\ ~lastCall'.ok => lastCall'.events = <<>>]_vars

\* the example of the claim in whole tokens (10^6 base units): a Level1
\* recipient, protocolFeeBps = 100, amount 1000 gives (author, 1000, 10, 495)
C15_Witness ==
  /\ lastCall.op = "settlePayment"
  /\ lastCall.ok
  /\ lastCall.pre.tier = Level1
  /\ protocolFeeBps = 100
  /\ lastCall.events = << [name |-> "PaymentSettled", author |-> Author, amount |-> 1000,
                           fee |-> 10, locked |-> 495] >>

(***************************************************************************)
(* Further properties of executePayment (SpecExec)                         *)
(***************************************************************************)
\* C16: executePayment never lets an exception escape to its caller: for every
\* request and every outcome of every chain call it returns a PaymentResult,
\* and an unexpected chain/RPC error yields success:false with errorCode
\* TRANSACTION_FAILED.
C16_NoExceptionEscapes ==
  \A i \in RunIds :
    done(i) =>
      /\ runs[i].result # Thrown
      /\ runs[i].result.success
           \/ runs[i].result.errorCode \in {"INVALID_SIGNATURE", "EXPIRED",
                                            "INSUFFICIENT_BALANCE", "TRANSACTION_FAILED"}

\* C17: whenever executePayment reports a failure after the collection
\* transaction has been confirmed successful (approval reverted, settlement
\* recipient missing, settlement submission threw, settlement reverted), the
\* failure result carries a transaction identifier of the partial progress.
C17_FailureAfterCollectionCarriesTx ==
  [][\A i \in RunIds :
       (/\ runs[i].pc \in {"allowance", "approve", "approveReceipt", "settle", "settleReceipt"}
        /\ runs'[i].pc = "done"
        /\ ~runs'[i].result.success)
         => runs'[i].result.transactionHash # ""]_vars

C20_MerchantAuthorization ==
  [][\A i \in PayIds :
       LET r == runs'[i]
           k == toLowerCase(r.req.userAddress)
           merchant == toLowerCase(r.req.challenge.merchantAddress)
           domain == toLowerCase(r.req.challenge.merchantDomain)
           authorized ==
             IF k \notin DOMAIN userPolicies THEN TRUE
             ELSE \/ merchant \in userPolicies[k].authorizedMerchants
                  \/ domain # "" /\ domain \in userPolicies[k].authorizedDomains
                  \/ userPolicies[k].autoPayEnabled
       IN (received(i) /\ r.req.userAddress # NoUser)
            => /\ authorized = isMerchantAuthorized(userPolicies, r.req.userAddress,
                                                     r.req.challenge.merchantAddress,
                                                     r.req.challenge.merchantDomain)
               /\ ~authorized <=> (/\ r.pc = "responded"
                                   /\ r.reason = "Merchant not authorized by user")]_vars

\* with autoPayEnabled off and an allow-list on record, a request of an
\* allow-listed merchant, sent without a domain, went on to the executor
C20_Witness ==
  \E i \in PayIds :
    LET k == toLowerCase(runs[i].req.userAddress)
    IN /\ runs[i].pc = "verify"
       /\ runs[i].req.challenge.merchantDomain = ""
       /\ k \in DOMAIN userPolicies
       /\ ~userPolicies[k].autoPayEnabled
       /\ toLowerCase(runs[i].req.challenge.merchantAddress) \in userPolicies[k].authorizedMerchants

(***************************************************************************)
(* Properties of the merchant's paid routes (SpecShop)                     *)
(***************************************************************************)
\* the handler of visit i has sent its response
visited(i) == runs[i].pc = "responded"

\* the paid resource went out only after executePayment was called once with the
\* payload of the X-PAYMENT header, returned success, and the payment is on the ledger
servedAfterSuccess(i) ==
  LET r == runs[i]
      a == decodePaymentHeader(r.req.header).payload.authorization
  IN r.served =>
       /\ visited(i)
       /\ ~headerAbsent(r.req.header)
       /\ r.nExecutePayment = 1
       /\ r.result.success
       /\ <<toLowerCase(a.from), a.nonce>> \in authState
       /\ a.value >= priceInBaseUnits
       /\ r.status = MERCHANT_HTTP_STATUS.OK
       /\ (r.handler = "purchaseProduct" => r.body.receipt = r.result.transactionHash)

recipients(req) ==
  {toLowerCase(req.signedPayload.authorization.to), toLowerCase(req.challenge.merchantAddress),
   req.challenge.authorAddress}

\* C21 as stated: a run that returned success has confirmed its collection and its
\* settlement (the last transaction it submitted), carries the settlement's
\* identifier, and its details are the payer, a recipient, the amount and the
\* network of its request
C21_SuccessEchoesRequest ==
  \A i \in RunIds :
    LET r == runs[i]
        a == r.req.signedPayload.authorization
    IN (done(i) /\ r.result.success) =>
         /\ r.collected
         /\ r.txs # <<>> /\ r.txs[Len(r.txs)] = "settle"
         /\ r.result.transactionHash = "settle"
         /\ r.result.details[1] = a.from
         /\ r.result.details[2] \in recipients(r.req)
         /\ r.result.details[3] = a.value
         /\ r.result.details[4] = r.req.challenge.network

\* the transactions run i has submitted
submitted(i, tx) == \E k \in 1..Len(runs[i].txs) : runs[i].txs[k] = tx

\* the step submits transaction tx of run i
submits(i, tx) == runs'[i].txs = Append(runs[i].txs, tx)

\* C22: per request the transactions are submitted in the order collect, (approve),
\* settle; the approval only after the collection is confirmed and only when the
\* allowance read was below the amount; the settlement only after the collection is
\* confirmed and, if an approval was submitted, after the approval is confirmed; a
\* reverted approval or settlement ends the request with TRANSACTION_FAILED
C22_TransactionOrder ==
  /\ [](\A i \in RunIds :
          /\ runs[i].txs \in {<<>>, <<"collect">>, <<"collect", "approve">>,
                              <<"collect", "settle">>, <<"collect", "approve", "settle">>}
          /\ (submitted(i, "approve") \/ submitted(i, "settle")) => runs[i].collected)
  /\ [][\A i \in RunIds :
          LET r == runs[i]
              a == r.req.signedPayload.authorization
              failed == /\ runs'[i].pc = "done"
                        /\ ~runs'[i].result.success
                        /\ runs'[i].result.errorCode = "TRANSACTION_FAILED"
          IN /\ runs'[i].txs # r.txs =>
                  \/ submits(i, "collect") /\ r.pc = "collect"
                  \/ submits(i, "approve") /\ r.pc = "approve"
                  \/ submits(i, "settle") /\ r.pc = "settle"
             \* the approval is prepared only by an allowance read below the amount
             /\ (runs'[i].pc = "approve" /\ r.pc # "approve") =>
                  (r.pc = "allowance" /\ r.collected /\ allowance[Fac] < a.value)
             \* the settlement is prepared by a sufficient allowance or a confirmed approval
             /\ (runs'[i].pc = "settle" /\ r.pc # "settle") =>
                  \/ r.pc = "allowance" /\ r.collected /\ allowance[Fac] >= a.value
                  \/ r.pc = "approveReceipt" /\ allowance'[Fac] = UnlimitedAllowance
             \* an approval that is not confirmed ends the request
             /\ (r.pc = "approveReceipt" /\ runs'[i].pc # "approveReceipt"
                 /\ runs'[i].pc # "settle") => failed
             /\ (r.pc = "approveReceipt" /\ allowance'[Fac] < a.value
                 /\ runs'[i].pc # "approveReceipt") =>
                  (failed /\ ~submitted(i, "settle")')
             \* a settlement that reverted ends the request, success needs its receipt
             /\ (r.pc = "settleReceipt" /\ runs'[i].pc # "settleReceipt") =>
                  /\ runs'[i].pc = "done"
                  /\ ~lastCall'.ok => failed
                  /\ runs'[i].result.success => lastCall'.ok]_vars

\* a run has submitted all three transactions and its settlement is confirmed
C22_Witness ==
  \E i \in RunIds :
    /\ done(i)
    /\ runs[i].txs = <<"collect", "approve", "settle">>
    /\ runs[i].result.success

\* run i ends in this step with the error kind errorCode, having submitted nothing
rejects(i, errorCode) ==
  /\ runs'[i].pc = "done"
  /\ ~runs'[i].result.success
  /\ runs'[i].result.errorCode = errorCode
  /\ runs'[i].txs = <<>>
  /\ ~runs'[i].collected

\* C23: a request that fails a validation check (signature, validity window, payer
\* balance, nonce) ends as a failure with the error kind of a failing check and
\* without any transaction submitted; a balance check whose read fails ends the run
\* with the read's exception, and a consumed nonce that the nonce read missed is
\* refused when the collection is prepared
C23_ValidationFailureSubmitsNothing ==
  /\ [](\A i \in RunIds :
          (done(i) /\ runs[i].result.errorCode \in {"INVALID_SIGNATURE", "EXPIRED",
                                                    "INSUFFICIENT_BALANCE"})
            => (runs[i].txs = <<>> /\ ~runs[i].collected /\ ~runs[i].result.success))
  /\ [][\A i \in RunIds :
          LET r == runs[i]
              p == r.req.signedPayload
              a == p.authorization
              badSignature == ~recovers(p.signature, a)
              badWindow == nowSeconds < a.validAfter \/ nowSeconds > a.validBefore
              poor == tokenBal[toLowerCase(a.from)] < a.value
              used == <<toLowerCase(a.from), a.nonce>> \in authState
              moved == runs'[i] # r
          IN /\ (moved /\ r.pc = "verify" /\ (badSignature \/ badWindow)) =>
                  \/ badSignature /\ rejects(i, "INVALID_SIGNATURE")
                  \/ badWindow /\ rejects(i, "EXPIRED")
             /\ (moved /\ r.pc = "balance" /\ poor) =>
                  \/ rejects(i, "INSUFFICIENT_BALANCE")
                  \/ runs'[i].pc = "done" /\ runs'[i].result = Thrown /\ runs'[i].txs = <<>>
             /\ (moved /\ r.pc = "nonce" /\ used) =>
                  \/ rejects(i, "TRANSACTION_FAILED")
                  \/ runs'[i].pc = "collect" /\ runs'[i].txs = <<>>
             /\ (moved /\ r.pc = "collect" /\ used) => rejects(i, "TRANSACTION_FAILED")]_vars

\* a run was rejected for the payer's balance after another run had collected
C23_Witness ==
  \E i, j \in RunIds :
    /\ done(i) /\ runs[i].result.errorCode = "INSUFFICIENT_BALANCE" /\ runs[i].txs = <<>>
    /\ runs[j].collected

\* C24 as stated: the validation of a request answers with the error kind of the
\* first failing check in the order window (EXPIRED), signature (INVALID_SIGNATURE),
\* balance (INSUFFICIENT_BALANCE), nonce (TRANSACTION_FAILED), and the balance and
\* the nonce are read only after window and signature have passed
C24_FirstFailingCheckInOrder ==
  [][\A i \in RunIds :
       LET r == runs[i]
           p == r.req.signedPayload
           a == p.authorization
           badWindow == nowSeconds < a.validAfter \/ nowSeconds > a.validBefore
           badSignature == ~recovers(p.signature, a)
           poor == tokenBal[toLowerCase(a.from)] < a.value
           moved == runs'[i] # r
           reads(run) == run.nBalanceOf + run.nAuthorizationState
       IN /\ (moved /\ r.pc = "verify" /\ badWindow) => rejects(i, "EXPIRED")
          /\ (moved /\ r.pc = "verify" /\ ~badWindow /\ badSignature) =>
               rejects(i, "INVALID_SIGNATURE")
          /\ (moved /\ r.pc = "balance" /\ poor /\ runs'[i].result # Thrown) =>
               rejects(i, "INSUFFICIENT_BALANCE")
          /\ reads(runs'[i]) > reads(r) =>
               (r.pc \in {"balance", "nonce"} /\ ~badSignature)
          /\ (r.pc = "verify" /\ runs'[i].pc = "balance") => (~badWindow /\ ~badSignature)]_vars

(***************************************************************************)
(* Properties of the policy validator, continued (SpecPay)                 *)
(***************************************************************************)
\* the six checks of a request against the policy store, in the stated order
sixChecks(request) ==
  LET userAddress == request.userAddress
      challenge == request.challenge
      authorization == request.signedPayload.authorization
      policy == getUserPolicy(userPolicies, userAddress)
  IN << isMerchantAuthorized(userPolicies, userAddress, challenge.merchantAddress,
                             challenge.merchantDomain),
        challenge.amount <= policy.maxTransactionAmount,
        challenge.amount <= getRemainingDailyAllowance(userPolicies, userAddress),
        toLowerCase(authorization.from) = toLowerCase(userAddress),
        toLowerCase(authorization.to) = toLowerCase(challenge.merchantAddress),
        authorization.value = challenge.amount >>

sixReasons ==
  << "Merchant not authorized by user", "Exceeds limit", "Exceeds daily limit",
     "From address mismatch", "Destination mismatch", "Amount mismatch" >>

\* C25: in every state of the policy store, validatePaymentRequest allows a request
\* iff all six checks pass, otherwise it gives the reason of the first failing
\* check; an allowed result carries the remaining daily allowance minus the amount,
\* which is not negative; the handler answers with that verdict
C25_SixChecksInOrder ==
  /\ [](\A request \in PayRequests :
          ~malformed(request) =>
            LET result == validatePaymentRequest(userPolicies, request)
                checks == sixChecks(request)
                failing == {k \in 1..6 : ~checks[k]}
            IN /\ result.allowed <=> failing = {}
               /\ ~result.allowed =>
                    \E k \in failing : /\ \A j \in failing : k <= j
                                       /\ result.reason = sixReasons[k]
               /\ result.allowed =>
                    /\ result.remainingDaily
                         = getRemainingDailyAllowance(userPolicies, request.userAddress)
                             - request.challenge.amount
                    /\ result.remainingDaily >= 0)
  /\ [][\A i \in PayIds :
          (received(i) /\ ~malformed(runs'[i].req)) =>
            LET result == validatePaymentRequest(userPolicies, runs'[i].req)
            IN IF result.allowed THEN runs'[i].pc = "verify"
               ELSE /\ runs'[i].pc = "responded"
                    /\ ~runs'[i].allowed
                    /\ runs'[i].reason = result.reason]_vars

\* a request passed the first five checks and was rejected by the sixth, in a
\* state where another request is allowed and leaves less than the daily limit
C25_Witness ==
  /\ \E i \in PayIds : /\ runs[i].pc = "responded"
                        /\ runs[i].reason = "Amount mismatch"
  /\ \E request \in PayRequests :
       /\ ~malformed(request)
       /\ validatePaymentRequest(userPolicies, request).allowed
       /\ validatePaymentRequest(userPolicies, request).remainingDaily
            = DAILY_SPENDING_LIMIT - SmallValue

(***************************************************************************)
(* Properties of executePayment: the collection receipt (SpecExec)         *)
(***************************************************************************)
\* C26: when the collection is not confirmed as success, the run ends in that step
\* as a failure with TRANSACTION_FAILED and submits neither an approval nor a
\* settlement; the result of a reverted receipt carries the collection's identifier
\* (a receipt wait that throws leaves none), and only such a result carries it
C26_CollectRevertedStops ==
  /\ [](\A i \in RunIds :
          /\ (done(i) /\ runs[i].txs # <<>> /\ ~runs[i].collected) =>
               /\ runs[i].txs = <<"collect">>
               /\ ~runs[i].result.success
               /\ runs[i].result.errorCode = "TRANSACTION_FAILED"
          /\ (done(i) /\ runs[i].result.transactionHash = "collect") =>
               (~runs[i].collected /\ runs[i].txs = <<"collect">>))
  /\ [][\A i \in RunIds :
          LET r == runs[i]
              p == r.req.signedPayload
              reverted == ~canTransferWithAuthorization(p.authorization, p.signature, blockTime)
          IN (r.pc = "collectReceipt" /\ runs'[i] # r /\ reverted) =>
               /\ runs'[i].pc = "done"
               /\ ~runs'[i].result.success
               /\ runs'[i].result.errorCode = "TRANSACTION_FAILED"
               /\ runs'[i].result.transactionHash \in {"collect", ""}
               /\ runs'[i].txs = <<"collect">>
               /\ tokenBal' = tokenBal /\ allowance' = allowance]_vars

\* a run ended with the identifier of its reverted collection
C26_Witness ==
  \E i \in RunIds :
    /\ done(i)
    /\ runs[i].result.errorCode = "TRANSACTION_FAILED"
    /\ runs[i].result.transactionHash = "collect"
    /\ runs[i].txs = <<"collect">>

(***************************************************************************)
(* Properties of the vault, continued (SpecVault)                          *)
(***************************************************************************)
\* the lock duration of a tier in seconds: 15 days, 7 days, 1 day
lockSeconds(tier) ==
  IF tier = Level0 THEN 15 * 86400 ELSE IF tier = Level1 THEN 7 * 86400 ELSE 86400

\* C27: a settlePayment that locks toLock > 0 sets the recipient's unlockTime to the
\* block time plus the lock duration of the recipient's tier, whatever it was
\* before, and leaves the earlier locked tranches in lockedBalance under it; a
\* settlePayment with toLock = 0 leaves unlockTime as it was
C27_UnlockTimeOverwritten ==
  [][settled =>
       LET a == lastCall'.author
           toLock == authors'[a].lockedBalance - authors[a].lockedBalance
       IN /\ toLock >= 0
          /\ toLock > 0 => authors'[a].unlockTime = blockTime + lockSeconds(authors[a].tier)
          /\ toLock = 0 => authors'[a].unlockTime = authors[a].unlockTime
          /\ \A b \in Accounts \ {a} : authors'[b].unlockTime = authors[b].unlockTime]_vars

\* a settlement locked a second tranche and moved the unlock time of the first
\* one to an earlier time
C27_Witness ==
  /\ lastCall.op = "settlePayment" /\ lastCall.ok
  /\ lastCall.toLock > 0
  /\ lastCall.pre.lockedBalance > 0
  /\ authors[lastCall.author].unlockTime < lastCall.pre.unlockTime
  /\ authors[lastCall.author].lockedBalance = lastCall.pre.lockedBalance + lastCall.toLock

\* the step is a settlePayment or claimRevenue that went through and whose token
\* transfer called back into the vault
reentered ==
  /\ lastCall'.op \in {"settlePayment", "claimRevenue"}
  /\ lastCall'.ok
  /\ lastCall'.nested.op # "none"

\* the ledger and the settlement count that the call of the step leaves when it
\* runs alone, with no call made from inside its transfer
serial ==
  LET c == lastCall'
      alone == IF c.op = "settlePayment"
                 THEN settleOn(Ledger, c.caller, c.author, c.amount, "")
                 ELSE claimOn(Ledger, c.caller, "")
  IN [ledger |-> alone.ledger, nSettles |-> nSettles + alone.settles]

\* C28: a call to settlePayment or claimRevenue made from inside the token
\* transfer of a settlePayment or claimRevenue in progress is rejected by the
\* reentrancy guard, and the call in progress reads and leaves the state of its
\* execution alone: balances, allowances, profiles and the settlement count are
\* those of one call
C28_NestedCallRejected ==
  [][reentered =>
       /\ ~lastCall'.nested.ok
       /\ lastCall'.nested.err = "ReentrancyGuardReentrantCall"
       /\ authors' = serial.ledger.authors
       /\ tokenBal' = serial.ledger.tokenBal
       /\ allowance' = serial.ledger.allowance
       /\ nSettles' = serial.nSettles
       /\ nSettles' - nSettles = (IF lastCall'.op = "settlePayment" THEN 1 ELSE 0)
       /\ lastCall'.op = "settlePayment" => lastCall'.atTransfer = lastCall'.pre]_vars

\* a claim paid out while its transfer tried to settle a payment, and the attempt
\* was turned away by the guard
C28_Witness ==
  /\ lastCall.op = "claimRevenue" /\ lastCall.ok /\ lastCall.payout > 0
  /\ lastCall.nested.op = "settlePayment"
  /\ ~lastCall.nested.ok
  /\ lastCall.nested.err = "ReentrancyGuardReentrantCall"

\* C29: when claimRevenue makes its transfer of payout, the caller's availableBalance
\* is already zero, and so is lockedBalance when the locked balance had vested; a
\* claimRevenue made from inside that transfer is never paid, one that the guard
\* let in would revert with "Nothing to claim" on the state of that moment, and
\* the caller receives payout once
C29_ZeroedBeforeTransfer ==
  [][(lastCall'.op = "claimRevenue" /\ lastCall'.ok) =>
       LET c == lastCall'
           wasVested == c.pre.lockedBalance > 0 /\ blockTime >= c.pre.unlockTime
       IN /\ c.payout > 0
          /\ c.atTransfer.availableBalance = 0
          /\ wasVested => c.atTransfer.lockedBalance = 0
          /\ ~wasVested => c.atTransfer.lockedBalance = c.pre.lockedBalance
          /\ c.nested.op = "claimRevenue" => ~c.nested.ok
          /\ LET mid == [Ledger EXCEPT !.authors[c.caller] = c.atTransfer,
                                       !.tokenBal = Transfer(@, VaultAddr, c.caller, c.payout)]
                 again == claimOn(mid, c.caller, "")
             IN /\ ~again.call.ok
                /\ again.call.err = "Nothing to claim"
                /\ again.ledger = mid
          /\ tokenBal'[c.caller] = tokenBal[c.caller] + c.payout
          /\ tokenBal'[VaultAddr] = tokenBal[VaultAddr] - c.payout]_vars

\* a claim released a vested locked balance and paid it out while its transfer
\* tried to claim again
C29_Witness ==
  /\ lastCall.op = "claimRevenue" /\ lastCall.ok
  /\ lastCall.pre.lockedBalance > 0
  /\ lastCall.payout >= lastCall.pre.lockedBalance
  /\ lastCall.atTransfer.availableBalance = 0
  /\ lastCall.atTransfer.lockedBalance = 0
  /\ lastCall.nested.op = "claimRevenue"
  /\ ~lastCall.nested.ok

(***************************************************************************)
(* Properties of concurrent /api/pay requests (SpecRace)                   *)
(***************************************************************************)
\* the payer's stored policy
payerPolicy == getUserPolicy(userPolicies, Payer)

\* request i has been answered 200
paid(i) == runs[i].pc = "responded" /\ runs[i].status = HTTP_STATUS.OK

RECURSIVE paidUpTo(_)
\* the amounts of the requests 1..n answered 200, added up
paidUpTo(n) ==
  IF n = 0 THEN 0
  ELSE paidUpTo(n - 1) + (IF paid(n) THEN runs[n].req.challenge.amount ELSE 0)

\* C30: the daily limit is checked when a request arrives and spending is recorded
\* when it has been settled, nothing in between: a request passes the check
\* exactly when its amount is within the limit less what has been recorded so
\* far, whatever is in flight; every settled request adds its amount to
\* spentToday; so spentToday is the sum of the settled amounts, each within the
\* limit, and exceeds dailySpendingLimit only after two requests that were both
\* settled
C30_CheckThenActRace ==
  /\ [](/\ payerPolicy.spentToday = paidUpTo(NumRacers)
        /\ \A i \in 1..NumRacers :
             paid(i) => /\ runs[i].req.challenge.amount <= payerPolicy.dailySpendingLimit
                        /\ runs[i].result.success
        /\ payerPolicy.spentToday > payerPolicy.dailySpendingLimit =>
             \E i, j \in 1..NumRacers : i # j /\ paid(i) /\ paid(j))
  /\ [][\A i \in 1..NumRacers :
          LET remaining == payerPolicy.dailySpendingLimit - payerPolicy.spentToday
              amount == runs'[i].req.challenge.amount
          IN /\ (runs[i].pc = "idle" /\ runs'[i].pc = "verify") => amount <= remaining
             /\ (runs[i].pc = "idle" /\ runs'[i].pc = "responded") =>
                  /\ amount > remaining
                  /\ runs'[i].reason = "Exceeds daily limit"
                  /\ runs'[i].status = HTTP_STATUS.FORBIDDEN
             /\ (runs[i].pc = "done" /\ runs'[i].pc = "responded"
                   /\ runs'[i].status = HTTP_STATUS.OK) =>
                  payerPolicy'.spentToday = payerPolicy.spentToday + amount
             /\ (runs[i].pc = "done" /\ runs'[i].pc = "responded"
                   /\ runs'[i].status # HTTP_STATUS.OK) =>
                  payerPolicy'.spentToday = payerPolicy.spentToday]_vars

\* two requests of the payer, each within the daily limit, were both settled and
\* answered 200, and spentToday is above dailySpendingLimit
C30_Witness ==
  \E i, j \in 1..NumRacers :
    /\ i # j /\ paid(i) /\ paid(j)
    /\ runs[i].req.userAddress = Payer /\ runs[j].req.userAddress = Payer
    /\ runs[i].req.challenge.amount <= payerPolicy.dailySpendingLimit
    /\ runs[j].req.challenge.amount <= payerPolicy.dailySpendingLimit
    /\ runs[i].result.success /\ runs[j].result.success
    /\ nSettles = 2
    /\ payerPolicy.spentToday = runs[i].req.challenge.amount + runs[j].req.challenge.amount
    /\ payerPolicy.spentToday > payerPolicy.dailySpendingLimit

(***************************************************************************)
(* Properties of the policy store, continued (SpecPay)                     *)
(***************************************************************************)
\* C31: recordSpending(user, amount) called when now - lastResetTimestamp > 24h
\* sets spentToday to exactly amount and lastResetTimestamp to now; called within
\* the window it adds amount to spentToday and leaves lastResetTimestamp as it
\* was; it touches no other field and no other policy; a step that reads the
\* allowance (GET /api/policy, the validation of a payment) changes neither field
\* of a stored policy
C31_LazyResetOnRecord ==
  /\ [](\A k \in DOMAIN userPolicies : \A amount \in {SmallValue, LargeValue} :
          LET before == userPolicies[k]
              store == recordSpending(userPolicies, k, amount)
              after == store[k]
              due == nowMs - before.lastResetTimestamp > 24 * 3600 * 1000
          IN /\ due => /\ after.spentToday = amount
                       /\ after.lastResetTimestamp = nowMs
             /\ ~due => /\ after.spentToday = before.spentToday + amount
                        /\ after.lastResetTimestamp = before.lastResetTimestamp
             /\ after = [before EXCEPT !.spentToday = after.spentToday,
                                       !.lastResetTimestamp = after.lastResetTimestamp]
             /\ DOMAIN store = DOMAIN userPolicies
             /\ \A other \in DOMAIN store \ {k} : store[other] = userPolicies[other])
  /\ [][(lastQuery'.status = 200 \/ \E i \in PayIds : received(i)) =>
          \A k \in DOMAIN userPolicies :
            /\ k \in DOMAIN userPolicies'
            /\ userPolicies'[k].spentToday = userPolicies[k].spentToday
            /\ userPolicies'[k].lastResetTimestamp = userPolicies[k].lastResetTimestamp]_vars

\* a payment validated on one day was recorded on the next: the counter holds
\* exactly its amount and the reset time is the time of recording; the allowance
\* has been read since without changing either
C31_Witness ==
  \E i \in PayIds :
    LET k == toLowerCase(runs[i].req.userAddress)
    IN /\ runs[i].pc = "responded"
       /\ runs[i].status = 200
       /\ k \in DOMAIN userPolicies
       /\ nowMs > StartSeconds * 1000
       /\ userPolicies[k].lastResetTimestamp = nowMs
       /\ userPolicies[k].spentToday = runs[i].req.challenge.amount
       /\ lastQuery.status = 200
       /\ lastQuery.policy = userPolicies[k]

(***************************************************************************)
(* Properties of executePayment, continued (SpecExecFair)                  *)
(***************************************************************************)
\* how far a run has come in executePayment
stage(pc) ==
  CASE pc = "idle" -> 0
    [] pc = "verify" -> 1
    [] pc = "balance" -> 2
    [] pc = "nonce" -> 3
    [] pc = "collect" -> 4
    [] pc = "collectReceipt" -> 5
    [] pc = "allowance" -> 6
    [] pc = "approve" -> 7
    [] pc = "approveReceipt" -> 8
    [] pc = "settle" -> 9
    [] pc = "settleReceipt" -> 10
    [] OTHER -> 11

\* the number of times run i has submitted transaction tx
timesSubmitted(i, tx) == Cardinality({k \in 1..Len(runs[i].txs) : runs[i].txs[k] = tx})

\* C32: every executePayment run whose awaited calls return or throw ends (with
\* success, with a failure result, or with the exception of the balance lookup)
\* after at most one collection, one approval and one settlement transaction; no
\* step is done again: a run only moves forward, and its end is final
C32_TerminatesWithoutRetry ==
  /\ [](\A i \in 1..NumFair : \A tx \in {"collect", "approve", "settle"} :
          timesSubmitted(i, tx) <= 1)
  /\ [][\A i \in 1..NumFair :
          /\ runs'[i] # runs[i] => stage(runs'[i].pc) > stage(runs[i].pc)
          /\ done(i) => runs'[i] = runs[i]]_vars
  /\ \A i \in 1..NumFair : (runs[i].pc # "idle") ~> done(i)

\* a run ended in success after one collection, one approval and one settlement
C32_Witness ==
  \E i \in 1..NumFair :
    /\ done(i) /\ runs[i].result.success
    /\ runs[i].txs = <<"collect", "approve", "settle">>
    /\ runs[i].nBalanceOf = 1 /\ runs[i].nAuthorizationState = 1

(***************************************************************************)
(* Properties of the vault: conservation per recipient (SpecVault)         *)
(***************************************************************************)
\* what a profile holds for its recipient
held(profile) == profile.availableBalance + profile.lockedBalance

\* the net income the step settles to recipient r
creditedTo(r) ==
  IF lastCall'.op = "settlePayment" /\ lastCall'.ok /\ lastCall'.author = r
    THEN lastCall'.amount - (lastCall'.amount * protocolFeeBps) \div 10000
    ELSE 0

\* what the step pays out to recipient r
claimedBy(r) ==
  IF lastCall'.op = "claimRevenue" /\ lastCall'.ok /\ lastCall'.caller = r
    THEN lastCall'.payout
    ELSE 0

\* C33: per recipient r, every step changes availableBalance + lockedBalance of r
\* by the net income settled to r less the payout claimed by r, and the tokens r
\* holds by that payout, so paid out + available + locked stays equal to the sum
\* of the net incomes settled to r; a payout is never more than r's own profile
\* held, and it leaves every other profile as it was
C33_RecipientConservation ==
  [][\A r \in Accounts :
       /\ held(authors'[r]) - held(authors[r]) = creditedTo(r) - claimedBy(r)
       /\ r \notin {VaultAddr, treasuryWallet, lastCall'.caller} =>
            tokenBal'[r] = tokenBal[r]
       /\ claimedBy(r) > 0 =>
            /\ tokenBal'[r] - tokenBal[r] = claimedBy(r)
            /\ claimedBy(r) <= held(authors[r])
            /\ \A other \in Accounts \ {r} : authors'[other] = authors[other]
       /\ authors'[r].availableBalance >= 0
       /\ authors'[r].lockedBalance >= 0]_vars

\* a recipient claimed its own revenue, locked share included, while another
\* recipient's credit stayed in the vault
C33_Witness ==
  /\ lastCall.op = "claimRevenue" /\ lastCall.ok
  /\ lastCall.caller = Author
  /\ lastCall.payout = held(lastCall.pre)
  /\ lastCall.pre.lockedBalance > 0
  /\ tokenBal[Author] >= lastCall.payout
  /\ held(authors[Author2]) > 0
  /\ tokenBal[VaultAddr] = held(authors[Author2])

(***************************************************************************)
(* Properties of executePayment: whose money is settled (SpecExec)         *)
(***************************************************************************)
\* C34: every run that ended in success collected to the facilitator's own
\* address (authorization.to), so what the vault pulled from the facilitator had
\* been moved there by the run's collection, and the facilitator never holds less
\* than its own float
C34_SettledFromCollection ==
  /\ \A i \in RunIds :
       (done(i) /\ runs[i].result.success) =>
         /\ runs[i].collected
         /\ toLowerCase(runs[i].req.signedPayload.authorization.to) = Fac
  /\ tokenBal[Fac] >= FacFloat

(***************************************************************************)
(* Properties of /api/pay requests sent one after another (SpecSerial)     *)
(***************************************************************************)
\* what the confirmed collections have moved out of the payer's account
collectedFromPayer == PayerFunds - tokenBal[Payer]

\* C36: with the requests of the payer processed one after another and the policy
\* left alone, what confirmed collections have moved out of the payer's account
\* within the reset window is never more than dailySpendingLimit
C36_CollectedWithinLimit ==
  (nowMs - payerPolicy.lastResetTimestamp <= 24 * 3600 * 1000
     /\ payerPolicy.lastResetTimestamp = StartSeconds * 1000) =>
    collectedFromPayer <= payerPolicy.dailySpendingLimit

\* C37: with the requests of the payer processed one after another and the limits
\* left alone, spentToday is never more than dailySpendingLimit: a request is let
\* through only with an amount within the limit, and recording it, in the window
\* of its validation or after that window has elapsed, keeps spentToday within
\* the limit
C37_SpentWithinLimit ==
  /\ [](payerPolicy.spentToday <= payerPolicy.dailySpendingLimit)
  /\ [][\A i \in 1..NumSerial :
          LET amount == runs'[i].req.challenge.amount
              due == nowMs - payerPolicy.lastResetTimestamp > 24 * 3600 * 1000
          IN /\ (runs[i].pc = "idle" /\ runs'[i].pc = "verify") =>
                  amount <= payerPolicy.dailySpendingLimit
             /\ (runs[i].pc = "done" /\ runs'[i].pc = "responded"
                   /\ runs'[i].status = HTTP_STATUS.OK) =>
                  /\ payerPolicy'.spentToday = (IF due THEN 0 ELSE payerPolicy.spentToday) + amount
                  /\ payerPolicy'.spentToday <= payerPolicy'.dailySpendingLimit
                  /\ payerPolicy'.dailySpendingLimit = payerPolicy.dailySpendingLimit]_vars

\* two requests were settled one after the other under a limit that admits only
\* one of them in a window: the window elapsed before the second was recorded, and
\* the counter holds the second amount alone
C37_Witness ==
  \E i, j \in 1..NumSerial :
    /\ i # j /\ paid(i) /\ paid(j)
    /\ runs[i].req.challenge.amount + runs[j].req.challenge.amount
         > payerPolicy.dailySpendingLimit
    /\ payerPolicy.lastResetTimestamp = nowMs
    /\ nowMs > StartSeconds * 1000
    /\ payerPolicy.spentToday = runs[i].req.challenge.amount
    /\ payerPolicy.spentToday <= payerPolicy.dailySpendingLimit

(***************************************************************************)
(* Properties of the vault: its settings (SpecVault)                       *)
(***************************************************************************)
\* C38: protocolFeeBps is never above 10000 and treasuryWallet is never the zero
\* address: setProtocolFeeBps and setTreasury revert on other values and leave the
\* setting as it was; so the fee of a settlement is never more than its amount and
\* amount - fee is never negative
C38_SettingsInRange ==
  /\ [](/\ protocolFeeBps >= 0 /\ protocolFeeBps <= 10000
        /\ treasuryWallet # ZeroAddr
        /\ \A amount \in 0..InitialMint :
             (amount * protocolFeeBps) \div 10000 <= amount)
  /\ [][/\ protocolFeeBps' # protocolFeeBps =>
             /\ lastCall'.op = "setProtocolFeeBps" /\ lastCall'.ok
             /\ protocolFeeBps' = lastCall'.amount
        /\ treasuryWallet' # treasuryWallet =>
             /\ lastCall'.op = "setTreasury" /\ lastCall'.ok
             /\ treasuryWallet' = lastCall'.author
        /\ (lastCall'.op \in {"setProtocolFeeBps", "setTreasury"} /\ ~lastCall'.ok) =>
             /\ protocolFeeBps' = protocolFeeBps
             /\ treasuryWallet' = treasuryWallet
        /\ (lastCall'.op = "settlePayment" /\ lastCall'.ok) =>
             /\ lastCall'.fee = (lastCall'.amount * protocolFeeBps) \div 10000
             /\ lastCall'.fee <= lastCall'.amount
             /\ lastCall'.netIncome = lastCall'.amount - lastCall'.fee
             /\ lastCall'.netIncome >= 0]_vars

\* the admin has set the fee to the whole amount, and a settlement paid all of
\* its amount to the treasury as fee
C38_Witness ==
  /\ protocolFeeBps = 10000
  /\ treasuryWallet = Treasury
  /\ lastCall.op = "settlePayment" /\ lastCall.ok
  /\ lastCall.fee = lastCall.amount
  /\ lastCall.netIncome = 0
====
